---- MODULE Spec2Model ----
(***************************************************************************)
(* Model of the task dispatch / batch watcher / transactional outbox /     *)
(* relay core of the KTRU classifier service.                              *)
(*                                                                         *)
(* The Redis store is the only durable state.  Every Redis command, and    *)
(* every MULTI/EXEC pipeline, is one atomic step.  The service is a single *)
(* asyncio process: a coroutine keeps the event loop between two real      *)
(* suspension points (a remote API call, a webhook POST, a sleep); the     *)
(* store methods are declared async but never suspend.  "cur" names the    *)
(* coroutine that holds the event loop between two store operations of one *)
(* uninterrupted segment.  The environment (a process crash, a store       *)
(* outage) can act between any two store operations.                       *)
(***************************************************************************)
EXTENDS Integers, Sequences, FiniteSets, TLC

\* ------------------------------------------------------------------ bounds
Tasks == {"t1", "t2"}

\* settings.TASK_MAX_ATTEMPTS
MAX_ATTEMPTS == 3

\* Bounds of the relay model: clock ticks, failed deliveries per message,
\* concurrent POSTs per message.
MaxTicks == 2
MaxRetries == 1
MaxInFlight == 2

\* Failed deliveries of one message when OutboxStore is called directly:
\* enough for the delay to reach its cap (60 * 2^11 > 86400).
MaxFailures == 12

\* ---------------------------------------------------------------- values
\* Python None / a key that is not set (distinct from the empty string <<>>).
None == <<"None">>
NoTask == [status |-> "absent", attempts |-> 0, batch_id |-> None, result |-> None,
           error |-> None, ttl |-> 0, document_id |-> None]
Statuses == {"pending", "processing", "processing_by_api", "completed", "failed"}
Terminal == {"completed", "failed"}

\* Batch ids are issued by the remote API, a fresh one per create call; a
\* batch is named here by the submission that created it.
BatchIds == {<<t, n>> : t \in Tasks, n \in 0..MAX_ATTEMPTS}
FreshBatch(t, n) == <<t, n>>

\* Texts the remote can answer with (first content item of kind text).
ResultTexts == {<<" ", "26.30.11.150-00000123", " ">>, <<>>}

\* Error messages the remote can raise at batch creation.
RemoteErrors == {<<"rate limit exceeded (429)">>, <<"invalid_request_error: bad model">>,
                 <<"internal server error">>}

VARIABLES
    task,           \* task:<id> hash plus the :result / :error keys
    tasks_idx,      \* tasks:<status> ordered sets
    tasks_batch,    \* tasks:batch:<batch_id> ordered sets
    message,        \* outbox:message:<id> hashes, in order of creation
    outbox_pending, \* outbox:pending ordered set: message id -> score
    outbox_sent,    \* outbox:sent ordered set: message id -> score
    outbox_task,    \* outbox:task:<task_id> sets
    storeUp,        \* the store answers (FALSE: every command raises)
    cur,            \* coroutine holding the event loop, or "none"
    worker,         \* one _process_task coroutine per task
    watcher,        \* the _check_batches_loop coroutine
    now,            \* time.time()
    delivery,       \* _process_message coroutines
    receiverOk,     \* the webhook receiver answers 2xx from now on
    ret,            \* value returned by the last direct call of an OutboxStore method
    task_callback,  \* task:<id>:callback_url and task:<id>:callback_secret keys
    remote,         \* the remote API's record of the calls it has answered
    product_store,  \* product_batch:<id> hashes and the product_batches:active set
    processor,      \* TaskProcessor.running and the loop coroutines start() created
    stats           \* the counters stats:total_tasks, :pending_tasks, :completed_tasks, :failed_tasks

vars == <<task, tasks_idx, tasks_batch, message, outbox_pending, outbox_sent,
          outbox_task, storeUp, cur, worker, watcher, now, delivery, receiverOk, ret,
          task_callback, remote, product_store, processor, stats>>

taskVars == <<task, tasks_idx, tasks_batch, stats>>
outboxVars == <<message, outbox_pending, outbox_sent, outbox_task>>
relayVars == <<now, delivery, receiverOk>>

\* ------------------------------------------------------------ TaskStore
\* TTL schedule of the store.
PENDING_TTL == 604800
COMPLETED_TTL == 259200
FAILED_TTL == 1209600

NoData == <<>>

\* settings.CALLBACK_URL, settings.CALLBACK_SECRET
CALLBACK_URL == "http://localhost:8000/api/v1/callbacks/processing"
CALLBACK_SECRET == "your_callback_secret_here"
NoCallback == [url |-> "", secret |-> ""]

\* create_task: one pipeline writes the hash, the pending index and, when a
\* batch id is given, the per-batch index.
create_task(t, document_id, batch_id, callback_url, callback_secret) ==
    /\ task_callback' = [task_callback EXCEPT ![t] = [url |-> callback_url,
                                                      secret |-> callback_secret]]
    /\ task' = [task EXCEPT ![t] = [status |-> "pending", attempts |-> 0,
                                    batch_id |-> batch_id, result |-> None,
                                    error |-> None, ttl |-> PENDING_TTL,
                                    document_id |-> document_id]]
    /\ tasks_idx' = [tasks_idx EXCEPT !["pending"] = @ \cup {t}]
    /\ tasks_batch' = IF batch_id # None
                      THEN [tasks_batch EXCEPT ![batch_id] = @ \cup {t}]
                      ELSE tasks_batch
    /\ stats' = [stats EXCEPT !.total_tasks = @ + 1, !.pending_tasks = @ + 1]

\* update_task_status: the counters after a change from prev_status to
\* status: pending_tasks is decremented when the task leaves pending, the
\* counter of a terminal status is incremented when the task enters it.
StatsAfter(prev_status, status) ==
    IF prev_status = status THEN stats
    ELSE [stats EXCEPT
            !.pending_tasks = IF prev_status = "pending" THEN @ - 1 ELSE @,
            !.completed_tasks = IF status = "completed" THEN @ + 1 ELSE @,
            !.failed_tasks = IF status = "failed" THEN @ + 1 ELSE @]

\* update_task_status with the index update dropped from the pipeline's
\* "remove from the old index" command.
update_task_status_keep_old_index(t, status, data, ttl) ==
    /\ task' = [task EXCEPT
                  ![t].status = status,
                  ![t].batch_id = IF "batch_id" \in DOMAIN data THEN data.batch_id ELSE @,
                  ![t].error = IF "error" \in DOMAIN data THEN data.error ELSE @,
                  ![t].result = IF "result" \in DOMAIN data THEN data.result ELSE @,
                  ![t].ttl = IF ttl # 0 THEN ttl ELSE @]
    /\ tasks_idx' = [tasks_idx EXCEPT ![status] = @ \cup {t}]
    /\ tasks_batch' = IF "batch_id" \in DOMAIN data /\ data.batch_id # None
                      THEN [tasks_batch EXCEPT ![data.batch_id] = @ \cup {t}]
                      ELSE tasks_batch
    /\ stats' = StatsAfter(task[t].status, status)

\* update_task_status: reads the previous status, then one pipeline merges
\* the patch, sets the TTL when one is passed, and moves the task between
\* the status indices.
update_task_status(t, status, data, ttl) ==
    LET prev_status == task[t].status IN
    /\ task' = [task EXCEPT
                  ![t].status = status,
                  ![t].batch_id = IF "batch_id" \in DOMAIN data THEN data.batch_id ELSE @,
                  ![t].error = IF "error" \in DOMAIN data THEN data.error ELSE @,
                  ![t].result = IF "result" \in DOMAIN data THEN data.result ELSE @,
                  ![t].ttl = IF ttl # 0 THEN ttl ELSE @]
    /\ tasks_idx' = IF prev_status # status
                    THEN [s \in Statuses |->
                            IF s = status THEN tasks_idx[s] \cup {t}
                            ELSE IF s = prev_status THEN tasks_idx[s] \ {t}
                            ELSE tasks_idx[s]]
                    ELSE tasks_idx
    /\ tasks_batch' = IF "batch_id" \in DOMAIN data /\ data.batch_id # None
                      THEN [tasks_batch EXCEPT ![data.batch_id] = @ \cup {t}]
                      ELSE tasks_batch
    /\ stats' = StatsAfter(task[t].status, status)

\* get_pending_tasks(limit): the first limit members of tasks:pending.
PENDING_LIMIT == 10
get_pending_tasks ==
    IF Cardinality(tasks_idx["pending"]) <= PENDING_LIMIT
    THEN tasks_idx["pending"]
    ELSE CHOOSE S \in SUBSET tasks_idx["pending"] : Cardinality(S) = PENDING_LIMIT

\* increment_attempt: HINCRBY attempts 1, returns the new value.
increment_attempt(t) == task[t].attempts + 1

\* ---------------------------------------------------------- OutboxStore
\* Time not set (sent_at of a message not yet sent).
NoTime == -1

\* uuid4 message ids, named by their order of creation; the processor
\* writes at most one per task.
MessageIds == 1..Cardinality(Tasks)
NewMessageId == Cardinality(DOMAIN message) + 1

\* create_outbox_message: one pipeline writes the hash, scores the message
\* in outbox:pending by its creation time and indexes it by task.
create_outbox_message(message_id, task_id, status, payload) ==
    /\ message' = (message_id :> [task_id |-> task_id, status |-> status,
                                  payload |-> payload, created_at |-> now,
                                  sent_at |-> NoTime, retry_count |-> 0,
                                  next_retry_at |-> now, last_error |-> None]) @@ message
    /\ outbox_pending' = (message_id :> now) @@ outbox_pending
    /\ outbox_task' = [outbox_task EXCEPT ![task_id] = @ \cup {message_id}]
    /\ outbox_sent' = outbox_sent

\* mark_as_sent with the removal from outbox:pending left out.
mark_as_sent_keeps_pending(message_id) ==
    /\ message' = [message EXCEPT ![message_id].sent_at = now]
    /\ outbox_pending' = outbox_pending
    /\ outbox_sent' = (message_id :> now) @@ outbox_sent
    /\ outbox_task' = outbox_task

\* mark_as_sent: one pipeline sets sent_at, removes the message from
\* outbox:pending and adds it to outbox:sent.
mark_as_sent(message_id) ==
    /\ message' = [message EXCEPT ![message_id].sent_at = now]
    /\ outbox_pending' = [m \in DOMAIN outbox_pending \ {message_id} |-> outbox_pending[m]]
    /\ outbox_sent' = (message_id :> now) @@ outbox_sent
    /\ outbox_task' = outbox_task

RETRY_DELAY_SECONDS == 60
MAX_RETRY_DELAY == 86400

Min(a, b) == IF a <= b THEN a ELSE b

\* NextRetryDelay computed from the incremented retry_count.
NextRetryDelay_after_increment(retry_count) ==
    Min(RETRY_DELAY_SECONDS * (2 ^ (retry_count + 1)), MAX_RETRY_DELAY)

\* The delay mark_as_failed adds for a message that has failed retry_count
\* times before.
NextRetryDelay(retry_count) ==
    Min(RETRY_DELAY_SECONDS * (2 ^ retry_count), MAX_RETRY_DELAY)

\* mark_as_failed: reads retry_count, then one pipeline writes the new
\* retry_count, next_retry_at and last_error and scores the message in
\* outbox:pending by next_retry_at.
mark_as_failed(message_id, error) ==
    LET retry_count == message[message_id].retry_count
        next_retry_at == now + NextRetryDelay(retry_count)
    IN
    /\ message' = [message EXCEPT ![message_id].retry_count = retry_count + 1,
                                  ![message_id].next_retry_at = next_retry_at,
                                  ![message_id].last_error = error]
    /\ outbox_pending' = (message_id :> next_retry_at) @@ outbox_pending
    /\ outbox_sent' = outbox_sent
    /\ outbox_task' = outbox_task

\* get_pending_messages(limit): the limit lowest-scored members of
\* outbox:pending whose score is at most now (ties in member order).
get_pending_messages(limit) ==
    LET due == {m \in DOMAIN outbox_pending : outbox_pending[m] <= now}
        Before(k, m) == \/ outbox_pending[k] < outbox_pending[m]
                        \/ outbox_pending[k] = outbox_pending[m] /\ k < m
    IN {m \in due : Cardinality({k \in due : Before(k, m)}) < limit}

\* ------------------------------------------------------ RemoteBatchClient
\* Substring tests of _should_retry_error on the lower-cased message.
\* str.lower() of a piece of text.
Lower(piece) ==
    CASE piece = "Rate Limit" -> "rate limit"
      [] piece = "TIMEOUT" -> "timeout"
      [] piece = "INVALID" -> "invalid"
      [] piece = "Malformed" -> "malformed"
      [] OTHER -> piece

\* keyword in piece, for a lower-cased piece.
InPiece(keyword, piece) ==
    \/ keyword = piece
    \/ keyword = "invalid" /\ piece = "invalid_request_error"

\* keyword in error_message.lower(): a message is a sequence of pieces of
\* text (the two remote errors of the dispatcher model are single pieces).
Contains(msg, keyword) ==
    \/ msg = <<"rate limit exceeded (429)">> /\ keyword \in {"rate limit", "429"}
    \/ msg = <<"invalid_request_error: bad model">>
         /\ keyword \in {"invalid", "invalid_request_error"}
    \/ \E i \in DOMAIN msg : InPiece(keyword, Lower(msg[i]))

RetryKeywords == {"timeout", "connection", "network", "rate limit",
                  "too many requests", "429", "overloaded", "529"}
NoRetryKeywords == {"invalid", "content policy", "malformed", "400", "format",
                    "invalid_request_error"}

\* _should_retry_error with the two keyword tests in the other order.
_should_retry_error_no_retry_first(msg) ==
    IF \E k \in NoRetryKeywords : Contains(msg, k) THEN FALSE
    ELSE TRUE

_should_retry_error(msg) ==
    IF \E k \in RetryKeywords : Contains(msg, k) THEN TRUE
    ELSE IF \E k \in NoRetryKeywords : Contains(msg, k) THEN FALSE
    ELSE TRUE

\* str.strip() on a text given as a sequence of tokens, " " being white space.
RECURSIVE StripLeft(_)
StripLeft(x) == IF x # <<>> /\ Head(x) = " " THEN StripLeft(Tail(x)) ELSE x
RECURSIVE StripRight(_)
StripRight(x) ==
    IF x # <<>> /\ x[Len(x)] = " " THEN StripRight(SubSeq(x, 1, Len(x) - 1)) ELSE x
_extract_json_from_response(response_text) == StripRight(StripLeft(response_text))

\* The document_id process_text gives the task when the request names none
\* (doc_<uuid4>); create_batch uses it as the request's custom_id.
DocumentId(t) == <<"doc", t>>
\* The document ids a caller can name.
Documents == {DocumentId(t) : t \in Tasks}

BatchStatuses == {"in_progress", "ended", "expired", "canceled"}

ErrBatchEntry == <<"batch request errored">>
ErrUnknown == <<"unknown error">>
ErrNotFound(document_id, batch_id) == <<"result not found in batch", document_id, batch_id>>

\* get_batch_results: the entry built for one element of the result stream.
ResultEntries ==
    {[status |-> "completed", result |-> _extract_json_from_response(x)] : x \in ResultTexts}
    \cup {[status |-> "failed", error |-> ErrBatchEntry]}
    \cup {[status |-> "expired"]}

\* get_batch_results: the map custom_id -> entry the stream of a batch can
\* give: the entry of the batch's single request, or nothing.
BatchResults(batch_id) ==
    {<<>>} \cup {DocumentId(batch_id[1]) :> e : e \in ResultEntries}

\* str(AIException) raised by create_batch: the prefixed original message.
AIExceptionText(msg) == <<"create_batch_error">> \o msg

\* ------------------------------------------------------------ coroutines
NoCur == <<>>
WorkerCo(t) == <<"worker", t>>
WatcherCo == <<"watcher">>

NoWorker == [pc |-> "none", attempts |-> 0, new_attempts |-> 0, error |-> None]
\* polled and applied record what the running cycle has done so far: the
\* batch ids whose status it has requested and those whose results it has
\* started to apply.
IdleWatcher == [pc |-> "idle", list |-> {}, batch_id |-> None, batch_tasks |-> {},
                results |-> <<>>, task_id |-> "", status |-> "", payload |-> <<>>,
                polled |-> {}, applied |-> {}]

\* The remote has answered no call: rejected counts, per task, the
\* create_batch calls of the dispatcher it has refused.
NoRemote == [rejected |-> [t \in Tasks |-> 0]]

\* The task processor as the application's startup leaves it: running, with
\* one coroutine of each loop.
Started == [running |-> TRUE, process_loop |-> <<"test">>, check_loop |-> <<"test">>]

\* No counter has been written.
NoStats == [total_tasks |-> 0, pending_tasks |-> 0, completed_tasks |-> 0,
            failed_tasks |-> 0]

\* No product batch has been stored.
NoProducts == [batch |-> <<>>, active |-> {}, completed |-> {}, failed |-> {},
               product |-> <<>>, error |-> {}, job |-> <<>>]

ErrMaxAttempts == <<"max_attempts_exceeded">>
ErrStore == <<"store_error">>

\* The store is empty and no coroutine has run.
InitStore ==
    /\ task = [t \in Tasks |-> NoTask]
    /\ tasks_idx = [s \in Statuses |-> {}]
    /\ tasks_batch = [b \in BatchIds |-> {}]
    /\ message = <<>>
    /\ outbox_pending = <<>>
    /\ outbox_sent = <<>>
    /\ outbox_task = [t \in Tasks |-> {}]
    /\ storeUp = TRUE
    /\ cur = NoCur
    /\ worker = [t \in Tasks |-> NoWorker]
    /\ watcher = IdleWatcher
    /\ now = 0
    /\ delivery = <<>>
    /\ receiverOk = FALSE
    /\ task_callback = [t \in Tasks |-> NoCallback]
    /\ remote = NoRemote
    /\ product_store = NoProducts
    /\ stats = NoStats

Init == InitStore /\ ret = None /\ processor = Started

\* POST /processing/: the handler creates a remote batch, then stores the
\* task as pending, tagged with that batch.
ProcessText(t) ==
    /\ cur = NoCur
    /\ storeUp
    /\ task[t] = NoTask
    /\ create_task(t, DocumentId(t), FreshBatch(t, 0), CALLBACK_URL, CALLBACK_SECRET)
    /\ UNCHANGED <<outboxVars, storeUp, cur, worker, watcher, relayVars, ret, remote, product_store, processor>>

\* One cycle of _process_loop: a worker is spawned for every pending task.
\* The spawned workers run their first segment before the loop's sleep ends.
ProcessLoop ==
    /\ cur = NoCur
    /\ storeUp
    /\ \A t \in Tasks : worker[t].pc # "start"
    /\ get_pending_tasks # {}
    /\ worker' = [t \in Tasks |->
                    IF t \in get_pending_tasks
                    THEN [NoWorker EXCEPT !.pc = "start", !.attempts = task[t].attempts]
                    ELSE worker[t]]
    /\ UNCHANGED <<taskVars, outboxVars, storeUp, cur, watcher, relayVars, ret, task_callback, remote, product_store, processor>>

\* WorkerMaxAttempts that counts the refused dispatch as one more attempt.
WorkerMaxAttempts_counts_attempt(t) ==
    /\ cur = NoCur
    /\ worker[t].pc = "start"
    /\ worker[t].attempts >= MAX_ATTEMPTS
    /\ storeUp
    /\ task' = [task EXCEPT ![t].status = "failed", ![t].error = ErrMaxAttempts,
                            ![t].attempts = increment_attempt(t)]
    /\ tasks_idx' = [tasks_idx EXCEPT !["pending"] = @ \ {t}, !["failed"] = @ \cup {t}]
    /\ tasks_batch' = tasks_batch
    /\ stats' = StatsAfter("pending", "failed")
    /\ worker' = [worker EXCEPT ![t].pc = "max_enqueue", ![t].error = ErrMaxAttempts]
    /\ cur' = WorkerCo(t)
    /\ UNCHANGED <<outboxVars, storeUp, watcher, relayVars, ret, task_callback, remote,
                   product_store, processor>>

\* _process_task, attempts exhausted: the task is written as failed.
WorkerMaxAttempts(t) ==
    /\ cur = NoCur
    /\ worker[t].pc = "start"
    /\ worker[t].attempts >= MAX_ATTEMPTS
    /\ storeUp
    /\ update_task_status(t, "failed", [error |-> ErrMaxAttempts], 0)
    /\ worker' = [worker EXCEPT ![t].pc = "max_enqueue", ![t].error = ErrMaxAttempts]
    /\ cur' = WorkerCo(t)
    /\ UNCHANGED <<outboxVars, storeUp, watcher, relayVars, ret, task_callback, remote, product_store, processor>>

\* _process_task: the outbox message of a task the worker has written as
\* failed (the three call sites pass the error the task was failed with).
WorkerEnqueue(t) ==
    /\ cur = WorkerCo(t)
    /\ worker[t].pc \in {"max_enqueue", "ai_enqueue", "exc_enqueue"}
    /\ storeUp
    /\ create_outbox_message(NewMessageId, t, "failed", [error |-> worker[t].error])
    /\ worker' = [worker EXCEPT ![t] = NoWorker]
    /\ cur' = NoCur
    /\ UNCHANGED <<taskVars, storeUp, watcher, relayVars, ret, task_callback, remote, product_store, processor>>

\* WorkerIncrement without the check of the attempts already made.
WorkerIncrement_no_limit(t) ==
    /\ cur = NoCur
    /\ worker[t].pc = "start"
    /\ storeUp
    /\ task' = [task EXCEPT ![t].attempts = increment_attempt(t)]
    /\ worker' = [worker EXCEPT ![t].pc = "set_processing",
                                ![t].new_attempts = increment_attempt(t)]
    /\ cur' = WorkerCo(t)
    /\ UNCHANGED <<tasks_idx, tasks_batch, stats, outboxVars, storeUp, watcher, relayVars, ret, task_callback, remote, product_store, processor>>

\* _process_task: increment_attempt.
WorkerIncrement(t) ==
    /\ cur = NoCur
    /\ worker[t].pc = "start"
    /\ worker[t].attempts < MAX_ATTEMPTS
    /\ storeUp
    /\ task' = [task EXCEPT ![t].attempts = increment_attempt(t)]
    /\ worker' = [worker EXCEPT ![t].pc = "set_processing",
                                ![t].new_attempts = increment_attempt(t)]
    /\ cur' = WorkerCo(t)
    /\ UNCHANGED <<tasks_idx, tasks_batch, stats, outboxVars, storeUp, watcher, relayVars, ret, task_callback, remote, product_store, processor>>

\* _process_task: status processing, then the worker awaits create_batch.
WorkerSetProcessing(t) ==
    /\ cur = WorkerCo(t)
    /\ worker[t].pc = "set_processing"
    /\ storeUp
    /\ update_task_status(t, "processing", NoData, 0)
    /\ worker' = [worker EXCEPT ![t].pc = "create_batch"]
    /\ cur' = NoCur
    /\ UNCHANGED <<outboxVars, storeUp, watcher, relayVars, ret, task_callback, remote, product_store, processor>>

\* create_batch returned a batch: the task is written as processing_by_api
\* with the batch id.
CreateBatchOk(t) ==
    /\ cur = NoCur
    /\ worker[t].pc = "create_batch"
    /\ storeUp
    /\ update_task_status(t, "processing_by_api",
                          [batch_id |-> FreshBatch(t, worker[t].new_attempts)], 0)
    /\ worker' = [worker EXCEPT ![t] = NoWorker]
    /\ UNCHANGED <<outboxVars, storeUp, cur, watcher, relayVars, ret, task_callback, remote, product_store, processor>>

\* create_batch returned a batch and the write of processing_by_api raised:
\* the generic handler takes over.
CreateBatchOkStoreDown(t) ==
    /\ cur = NoCur
    /\ worker[t].pc = "create_batch"
    /\ ~storeUp
    /\ worker' = [worker EXCEPT
                    ![t].pc = IF worker[t].new_attempts >= MAX_ATTEMPTS
                              THEN "exc_fail" ELSE "exc_pending",
                    ![t].error = ErrStore]
    /\ cur' = WorkerCo(t)
    /\ UNCHANGED <<taskVars, outboxVars, storeUp, watcher, relayVars, ret, task_callback, remote, product_store, processor>>

\* except Exception, last attempt: the task is written as failed.
WorkerExcFail(t) ==
    /\ cur = WorkerCo(t)
    /\ worker[t].pc = "exc_fail"
    /\ storeUp
    /\ update_task_status(t, "failed", [error |-> worker[t].error], 0)
    /\ worker' = [worker EXCEPT ![t].pc = "exc_enqueue"]
    /\ UNCHANGED <<outboxVars, storeUp, cur, watcher, relayVars, ret, task_callback, remote, product_store, processor>>

\* except Exception, attempts left: the task returns to pending.
WorkerExcPending(t) ==
    /\ cur = WorkerCo(t)
    /\ worker[t].pc = "exc_pending"
    /\ storeUp
    /\ update_task_status(t, "pending", NoData, 0)
    /\ worker' = [worker EXCEPT ![t] = NoWorker]
    /\ cur' = NoCur
    /\ UNCHANGED <<outboxVars, storeUp, watcher, relayVars, ret, task_callback, remote, product_store, processor>>

\* CreateBatchError with the last attempt compared by > instead of >=.
CreateBatchError_off_by_one(t, msg) ==
    /\ cur = NoCur
    /\ worker[t].pc = "create_batch"
    /\ storeUp
    /\ LET retry == _should_retry_error(msg) IN
       IF ~retry \/ worker[t].new_attempts > MAX_ATTEMPTS
       THEN /\ update_task_status(t, "failed", [error |-> AIExceptionText(msg)], 0)
            /\ worker' = [worker EXCEPT ![t].pc = "ai_enqueue",
                                        ![t].error = AIExceptionText(msg)]
            /\ cur' = WorkerCo(t)
       ELSE /\ update_task_status(t, "pending", NoData, 0)
            /\ worker' = [worker EXCEPT ![t] = NoWorker]
            /\ cur' = NoCur
    /\ remote' = [remote EXCEPT !.rejected[t] = @ + 1]
    /\ UNCHANGED <<outboxVars, storeUp, watcher, relayVars, ret, task_callback, product_store, processor>>

\* CreateBatchError that takes the attempt before the last for the last.
CreateBatchError_one_attempt_less(t, msg) ==
    /\ cur = NoCur
    /\ worker[t].pc = "create_batch"
    /\ storeUp
    /\ LET retry == _should_retry_error(msg) IN
       IF ~retry \/ worker[t].new_attempts >= MAX_ATTEMPTS - 1
       THEN /\ update_task_status(t, "failed", [error |-> AIExceptionText(msg)], 0)
            /\ worker' = [worker EXCEPT ![t].pc = "ai_enqueue",
                                        ![t].error = AIExceptionText(msg)]
            /\ cur' = WorkerCo(t)
       ELSE /\ update_task_status(t, "pending", NoData, 0)
            /\ worker' = [worker EXCEPT ![t] = NoWorker]
            /\ cur' = NoCur
    /\ remote' = [remote EXCEPT !.rejected[t] = @ + 1]
    /\ UNCHANGED <<outboxVars, storeUp, watcher, relayVars, ret, task_callback, product_store, processor>>

\* create_batch raised AIException(retry): failed when the error is not
\* retryable or this was the last attempt, pending otherwise.
CreateBatchError(t, msg) ==
    /\ cur = NoCur
    /\ worker[t].pc = "create_batch"
    /\ storeUp
    /\ LET retry == _should_retry_error(msg) IN
       IF ~retry \/ worker[t].new_attempts >= MAX_ATTEMPTS
       THEN /\ update_task_status(t, "failed", [error |-> AIExceptionText(msg)], 0)
            /\ worker' = [worker EXCEPT ![t].pc = "ai_enqueue",
                                        ![t].error = AIExceptionText(msg)]
            /\ cur' = WorkerCo(t)
       ELSE /\ update_task_status(t, "pending", NoData, 0)
            /\ worker' = [worker EXCEPT ![t] = NoWorker]
            /\ cur' = NoCur
    /\ remote' = [remote EXCEPT !.rejected[t] = @ + 1]
    /\ UNCHANGED <<outboxVars, storeUp, watcher, relayVars, ret, task_callback, product_store, processor>>

\* A store command raised where _process_task does not catch it (before the
\* try block, or inside an except block): the worker ends.
WorkerStoreError(t) ==
    /\ ~storeUp
    /\ \/ cur = NoCur /\ worker[t].pc \in {"start", "create_batch"}
       \/ cur = WorkerCo(t)
    /\ worker' = [worker EXCEPT ![t] = NoWorker]
    /\ cur' = NoCur
    /\ UNCHANGED <<taskVars, outboxVars, storeUp, watcher, relayVars, ret, task_callback, remote, product_store, processor>>

\* ---------------------------------------------------------- BatchWatcher
ProcessingTime == <<"processing_time">>
InputTokens == <<"input_tokens">>
OutputTokens == <<"output_tokens">>

\* CheckBatchesLoop that lists the terminal tasks as well.
CheckBatchesLoop_lists_terminal ==
    /\ cur = NoCur
    /\ watcher.pc = "idle"
    /\ storeUp
    /\ tasks_idx["processing_by_api"] # {}
    /\ watcher' = [IdleWatcher EXCEPT
                     !.pc = "next",
                     !.list = tasks_idx["processing_by_api"] \cup tasks_idx["completed"]
                              \cup tasks_idx["failed"]]
    /\ cur' = WatcherCo
    /\ UNCHANGED <<taskVars, outboxVars, storeUp, worker, relayVars, ret, task_callback, remote, product_store, processor>>

\* CheckBatchesLoop that lists the members of tasks:processing.
CheckBatchesLoop_lists_processing ==
    /\ cur = NoCur
    /\ watcher.pc = "idle"
    /\ storeUp
    /\ tasks_idx["processing"] # {}
    /\ watcher' = [IdleWatcher EXCEPT !.pc = "next", !.list = tasks_idx["processing"]]
    /\ cur' = WatcherCo
    /\ UNCHANGED <<taskVars, outboxVars, storeUp, worker, relayVars, ret, task_callback, remote, product_store, processor>>

\* _check_batches_loop: a cycle starts with the members of
\* tasks:processing_by_api.
CheckBatchesLoop ==
    /\ cur = NoCur
    /\ watcher.pc = "idle"
    /\ storeUp
    /\ tasks_idx["processing_by_api"] # {}
    /\ watcher' = [IdleWatcher EXCEPT !.pc = "next",
                                      !.list = tasks_idx["processing_by_api"]]
    /\ cur' = WatcherCo
    /\ UNCHANGED <<taskVars, outboxVars, storeUp, worker, relayVars, ret, task_callback, remote, product_store, processor>>

\* The cycle's list is exhausted: the loop sleeps.
WatchSleep ==
    /\ cur = WatcherCo
    /\ watcher.pc = "next"
    /\ watcher.list = {}
    /\ watcher' = IdleWatcher
    /\ cur' = NoCur
    /\ UNCHANGED <<taskVars, outboxVars, storeUp, worker, relayVars, ret, task_callback, remote, product_store, processor>>

\* Next task of the list: get_task, then the watcher awaits get_batch_status
\* (a task without batch_id is skipped).
WatchNext(t) ==
    /\ cur = WatcherCo
    /\ watcher.pc = "next"
    /\ t \in watcher.list
    /\ storeUp
    /\ IF task[t].batch_id = None
       THEN /\ watcher' = [watcher EXCEPT !.list = @ \ {t}]
            /\ cur' = cur
       ELSE /\ watcher' = [watcher EXCEPT !.list = @ \ {t}, !.pc = "status",
                                          !.batch_id = task[t].batch_id,
                                          !.polled = @ \cup {task[t].batch_id}]
            /\ cur' = NoCur
    /\ UNCHANGED <<taskVars, outboxVars, storeUp, worker, relayVars, ret, task_callback, remote, product_store, processor>>

\* get_task raised outside the inner try blocks: the cycle is abandoned.
WatchStoreError ==
    /\ cur = WatcherCo
    /\ watcher.pc = "next"
    /\ watcher.list # {}
    /\ ~storeUp
    /\ watcher' = IdleWatcher
    /\ cur' = NoCur
    /\ UNCHANGED <<taskVars, outboxVars, storeUp, worker, relayVars, ret, task_callback, remote, product_store, processor>>

\* WatchNotEnded that writes the task of an expired batch as failed.
WatchNotEnded_fails_expired(st) ==
    /\ cur = NoCur
    /\ watcher.pc = "status"
    /\ st \in (BatchStatuses \ {"ended"}) \cup {"error"}
    /\ watcher' = [watcher EXCEPT !.pc = "next", !.batch_id = None]
    /\ cur' = WatcherCo
    /\ IF st = "expired" /\ storeUp
       THEN update_task_status(watcher.batch_id[1], "failed",
                               [error |-> <<"batch expired">>], 0)
       ELSE UNCHANGED taskVars
    /\ UNCHANGED <<outboxVars, storeUp, worker, relayVars, ret, task_callback, remote,
                   product_store, processor>>

\* get_batch_status answered with a status other than ended, or raised:
\* nothing is written, the loop goes on with the next task.
WatchNotEnded(st) ==
    /\ cur = NoCur
    /\ watcher.pc = "status"
    /\ st \in (BatchStatuses \ {"ended"}) \cup {"error"}
    /\ watcher' = [watcher EXCEPT !.pc = "next", !.batch_id = None]
    /\ cur' = WatcherCo
    /\ UNCHANGED <<taskVars, outboxVars, storeUp, worker, relayVars, ret, task_callback, remote, product_store, processor>>

\* get_batch_status answered ended: get_tasks_by_batch_id, then the watcher
\* awaits get_batch_results (a store error is logged, next task).
WatchEnded ==
    /\ cur = NoCur
    /\ watcher.pc = "status"
    /\ IF storeUp
       THEN /\ watcher' = [watcher EXCEPT !.pc = "results",
                                          !.batch_tasks = tasks_batch[watcher.batch_id]]
            /\ cur' = NoCur
       ELSE /\ watcher' = [watcher EXCEPT !.pc = "next", !.batch_id = None]
            /\ cur' = WatcherCo
    /\ UNCHANGED <<taskVars, outboxVars, storeUp, worker, relayVars, ret, task_callback, remote, product_store, processor>>

\* get_batch_results raised: next task.
WatchResultsError ==
    /\ cur = NoCur
    /\ watcher.pc = "results"
    /\ watcher' = [watcher EXCEPT !.pc = "next", !.batch_id = None, !.batch_tasks = {}]
    /\ cur' = WatcherCo
    /\ UNCHANGED <<taskVars, outboxVars, storeUp, worker, relayVars, ret, task_callback, remote, product_store, processor>>

\* get_batch_results returned the map of the batch.
WatchResults(results) ==
    /\ cur = NoCur
    /\ watcher.pc = "results"
    /\ results \in BatchResults(watcher.batch_id)
    /\ watcher' = [watcher EXCEPT !.pc = "handle", !.results = results,
                                  !.applied = @ \cup {watcher.batch_id}]
    /\ cur' = WatcherCo
    /\ UNCHANGED <<taskVars, outboxVars, storeUp, worker, relayVars, ret, task_callback, remote, product_store, processor>>

\* Outcome that writes an errored entry under status completed.
Outcome_error_as_completed(results, document_id, batch_id) ==
    IF document_id \in DOMAIN results
    THEN LET result_data == results[document_id] IN
         IF result_data.status = "completed"
         THEN [status |-> "completed",
               data |-> [result |-> result_data.result],
               payload |-> [result |-> result_data.result,
                            processing_time |-> ProcessingTime,
                            input_tokens |-> InputTokens,
                            output_tokens |-> OutputTokens]]
         ELSE LET error == IF "error" \in DOMAIN result_data
                           THEN result_data.error ELSE ErrUnknown IN
              [status |-> "completed", data |-> [error |-> error],
               payload |-> [error |-> error]]
    ELSE [status |-> "failed",
          data |-> [error |-> ErrNotFound(document_id, batch_id)],
          payload |-> [error |-> ErrNotFound(document_id, batch_id)]]

\* Outcome that treats a task without entry like an entry of another kind.
Outcome_missing_as_unknown(results, document_id, batch_id) ==
    IF document_id \in DOMAIN results /\ results[document_id].status = "completed"
    THEN [status |-> "completed",
          data |-> [result |-> results[document_id].result],
          payload |-> [result |-> results[document_id].result,
                       processing_time |-> ProcessingTime,
                       input_tokens |-> InputTokens,
                       output_tokens |-> OutputTokens]]
    ELSE LET error == IF document_id \in DOMAIN results
                         /\ "error" \in DOMAIN results[document_id]
                      THEN results[document_id].error ELSE ErrUnknown IN
         [status |-> "failed", data |-> [error |-> error],
          payload |-> [error |-> error]]

\* The terminal status and the outbox payload the watcher derives for a
\* task of the batch from the result map.
Outcome(results, document_id, batch_id) ==
    IF document_id \in DOMAIN results
    THEN LET result_data == results[document_id] IN
         IF result_data.status = "completed"
         THEN [status |-> "completed",
               data |-> [result |-> result_data.result],
               payload |-> [result |-> result_data.result,
                            processing_time |-> ProcessingTime,
                            input_tokens |-> InputTokens,
                            output_tokens |-> OutputTokens]]
         ELSE LET error == IF "error" \in DOMAIN result_data
                           THEN result_data.error ELSE ErrUnknown IN
              [status |-> "failed", data |-> [error |-> error],
               payload |-> [error |-> error]]
    ELSE [status |-> "failed",
          data |-> [error |-> ErrNotFound(document_id, batch_id)],
          payload |-> [error |-> ErrNotFound(document_id, batch_id)]]

\* for batch_task in batch_tasks: the terminal status write of one task.
WatchUpdate(bt) ==
    /\ cur = WatcherCo
    /\ watcher.pc = "handle"
    /\ bt \in watcher.batch_tasks
    /\ storeUp
    /\ LET o == Outcome(watcher.results, task[bt].document_id, watcher.batch_id) IN
       /\ update_task_status(bt, o.status, o.data, 0)
       /\ watcher' = [watcher EXCEPT !.pc = "enqueue", !.batch_tasks = @ \ {bt},
                                     !.task_id = bt, !.status = o.status,
                                     !.payload = o.payload]
    /\ UNCHANGED <<outboxVars, storeUp, cur, worker, relayVars, ret, task_callback, remote, product_store, processor>>

\* The outbox message of the task just written.
WatchEnqueue ==
    /\ cur = WatcherCo
    /\ watcher.pc = "enqueue"
    /\ storeUp
    /\ create_outbox_message(NewMessageId, watcher.task_id, watcher.status,
                             watcher.payload)
    /\ watcher' = [watcher EXCEPT !.pc = "handle", !.task_id = "", !.status = "",
                                  !.payload = <<>>]
    /\ UNCHANGED <<taskVars, storeUp, cur, worker, relayVars, ret, task_callback, remote, product_store, processor>>

\* All tasks of the batch are handled: next task of the list.
WatchBatchDone ==
    /\ cur = WatcherCo
    /\ watcher.pc = "handle"
    /\ watcher.batch_tasks = {}
    /\ watcher' = [watcher EXCEPT !.pc = "next", !.batch_id = None, !.results = <<>>]
    /\ UNCHANGED <<taskVars, outboxVars, storeUp, cur, worker, relayVars, ret, task_callback, remote, product_store, processor>>

\* A store command raised while the batch's tasks were handled: the error
\* is logged and the rest of the batch is skipped.
WatchHandleStoreError ==
    /\ cur = WatcherCo
    /\ \/ watcher.pc = "handle" /\ watcher.batch_tasks # {}
       \/ watcher.pc = "enqueue"
    /\ ~storeUp
    /\ watcher' = [IdleWatcher EXCEPT !.pc = "next", !.list = watcher.list,
                                      !.polled = watcher.polled,
                                      !.applied = watcher.applied]
    /\ UNCHANGED <<taskVars, outboxVars, storeUp, cur, worker, relayVars, ret, task_callback, remote, product_store, processor>>

\* ------------------------------------------------------------ environment
\* The process dies and is started again: coroutines are lost, the store
\* keeps what was written.
Crash ==
    /\ \/ cur # NoCur
       \/ watcher # IdleWatcher
       \/ \E t \in Tasks : worker[t] # NoWorker
       \/ delivery # <<>>
    /\ worker' = [t \in Tasks |-> NoWorker]
    /\ watcher' = IdleWatcher
    /\ cur' = NoCur
    /\ delivery' = <<>>
    /\ UNCHANGED <<taskVars, outboxVars, storeUp, now, receiverOk, ret, task_callback, remote, product_store, processor>>

StoreDown ==
    /\ storeUp
    /\ storeUp' = FALSE
    /\ UNCHANGED <<taskVars, outboxVars, cur, worker, watcher, relayVars, ret, task_callback, remote, product_store, processor>>

StoreRecover ==
    /\ ~storeUp
    /\ storeUp' = TRUE
    /\ UNCHANGED <<taskVars, outboxVars, cur, worker, watcher, relayVars, ret, task_callback, remote, product_store, processor>>

Next ==
    \/ \E t \in Tasks : ProcessText(t)
    \/ ProcessLoop
    \/ \E t \in Tasks : WorkerMaxAttempts(t)
    \/ \E t \in Tasks : WorkerEnqueue(t)
    \/ \E t \in Tasks : WorkerIncrement(t)
    \/ \E t \in Tasks : WorkerSetProcessing(t)
    \/ \E t \in Tasks : CreateBatchOk(t)
    \/ \E t \in Tasks : CreateBatchOkStoreDown(t)
    \/ \E t \in Tasks : WorkerExcFail(t)
    \/ \E t \in Tasks : WorkerExcPending(t)
    \/ \E t \in Tasks, msg \in RemoteErrors : CreateBatchError(t, msg)
    \/ \E t \in Tasks : WorkerStoreError(t)
    \/ CheckBatchesLoop
    \/ WatchSleep
    \/ \E t \in Tasks : WatchNext(t)
    \/ WatchStoreError
    \/ \E st \in BatchStatuses \cup {"error"} : WatchNotEnded(st)
    \/ WatchEnded
    \/ WatchResultsError
    \/ \E r \in BatchResults(watcher.batch_id) : WatchResults(r)
    \/ \E t \in Tasks : WatchUpdate(t)
    \/ WatchEnqueue
    \/ WatchBatchDone
    \/ WatchHandleStoreError
    \/ Crash
    \/ StoreDown
    \/ StoreRecover

Spec == Init /\ [][Next]_vars

\* ------------------------------------- the processor with the store up
\* The steps of the API handler, the dispatcher and the watcher while every
\* store command is answered.
DispatchStep ==
    \/ \E t \in Tasks : ProcessText(t)
    \/ ProcessLoop
    \/ \E t \in Tasks : WorkerMaxAttempts(t)
    \/ \E t \in Tasks : WorkerEnqueue(t)
    \/ \E t \in Tasks : WorkerIncrement(t)
    \/ \E t \in Tasks : WorkerSetProcessing(t)
    \/ \E t \in Tasks : CreateBatchOk(t)
    \/ \E t \in Tasks, msg \in RemoteErrors : CreateBatchError(t, msg)
    \/ CheckBatchesLoop
    \/ WatchSleep
    \/ \E t \in Tasks : WatchNext(t)
    \/ \E st \in BatchStatuses \cup {"error"} : WatchNotEnded(st)
    \/ WatchEnded
    \/ WatchResultsError
    \/ \E r \in BatchResults(watcher.batch_id) : WatchResults(r)
    \/ \E t \in Tasks : WatchUpdate(t)
    \/ WatchEnqueue
    \/ WatchBatchDone

DispatchNext == DispatchStep \/ Crash

\* The process is started again after every crash: both loops keep cycling
\* and every coroutine that can take a step takes it; every remote call a
\* worker awaits is answered.
DispatchFairness ==
    /\ WF_vars(ProcessLoop)
    /\ WF_vars(CheckBatchesLoop)
    /\ \A t \in Tasks :
          /\ WF_vars(WorkerMaxAttempts(t))
          /\ WF_vars(WorkerEnqueue(t))
          /\ WF_vars(WorkerIncrement(t))
          /\ WF_vars(WorkerSetProcessing(t))
          /\ WF_vars(CreateBatchOk(t) \/ \E msg \in RemoteErrors : CreateBatchError(t, msg))

DispatchLiveSpec == Init /\ [][DispatchNext]_vars /\ DispatchFairness

\* ------------------------------------ the processor with store outages
\* No crash; the store may stop answering and answer again.
StoreNext ==
    \/ DispatchStep
    \/ \E t \in Tasks : CreateBatchOkStoreDown(t)
    \/ \E t \in Tasks : WorkerExcFail(t)
    \/ \E t \in Tasks : WorkerExcPending(t)
    \/ \E t \in Tasks : WorkerStoreError(t)
    \/ WatchStoreError
    \/ WatchHandleStoreError
    \/ StoreDown
    \/ StoreRecover

\* The next step of the worker of task t, whether the store answers or
\* raises and whatever create_batch answers.
WorkerStep(t) ==
    \/ WorkerMaxAttempts(t)
    \/ WorkerEnqueue(t)
    \/ WorkerIncrement(t)
    \/ WorkerSetProcessing(t)
    \/ CreateBatchOk(t)
    \/ CreateBatchOkStoreDown(t)
    \/ \E msg \in RemoteErrors : CreateBatchError(t, msg)
    \/ WorkerExcFail(t)
    \/ WorkerExcPending(t)
    \/ WorkerStoreError(t)

\* The next step of the watcher within a cycle, whether the store answers
\* or raises and whatever the remote answers.
WatcherStep ==
    \/ WatchSleep
    \/ \E t \in Tasks : WatchNext(t)
    \/ WatchStoreError
    \/ \E st \in BatchStatuses \cup {"error"} : WatchNotEnded(st)
    \/ WatchEnded
    \/ WatchResultsError
    \/ \E r \in BatchResults(watcher.batch_id) : WatchResults(r)
    \/ \E t \in Tasks : WatchUpdate(t)
    \/ WatchEnqueue
    \/ WatchBatchDone
    \/ WatchHandleStoreError

\* Every outage ends, the dispatcher loop gets its cycles between outages,
\* and every coroutine takes its next step.
StoreFairness ==
    /\ WF_vars(StoreRecover)
    /\ SF_vars(ProcessLoop)
    /\ WF_vars(WatcherStep)
    /\ \A t \in Tasks : WF_vars(WorkerStep(t))

StoreLiveSpec == Init /\ [][StoreNext]_vars /\ StoreFairness

\* ------------------------------ submissions refused, then accepted
\* The errors of the remote that the classifier takes for retryable.
RetryableErrors == {msg \in RemoteErrors : _should_retry_error(msg)}

\* The remote refuses a submission of task t with a retryable error; it
\* refuses fewer than MAX_ATTEMPTS submissions of a task.
RemoteRejects(t, msg) ==
    /\ remote.rejected[t] < MAX_ATTEMPTS - 1
    /\ CreateBatchError(t, msg)

\* The dispatcher against a remote that refuses the first submissions of a
\* task with retryable errors and accepts the next one; no crash, the store
\* answers.
RetryNext ==
    \/ \E t \in Tasks : ProcessText(t)
    \/ ProcessLoop
    \/ \E t \in Tasks : WorkerIncrement(t)
    \/ \E t \in Tasks : WorkerSetProcessing(t)
    \/ \E t \in Tasks : CreateBatchOk(t)
    \/ \E t \in Tasks, msg \in RetryableErrors : RemoteRejects(t, msg)

RetryFairness ==
    /\ WF_vars(ProcessLoop)
    /\ \A t \in Tasks :
          /\ WF_vars(WorkerIncrement(t))
          /\ WF_vars(WorkerSetProcessing(t))
          /\ WF_vars(CreateBatchOk(t) \/ \E msg \in RetryableErrors : RemoteRejects(t, msg))

RetrySpec == Init /\ [][RetryNext]_vars /\ RetryFairness

\* The process dies while a task is in processing_by_api and the watcher is
\* between two cycles, and is started again.
CrashBeforePoll ==
    /\ watcher = IdleWatcher
    /\ \E t \in Tasks : task[t].status = "processing_by_api"
    /\ Crash

RestartNext == DispatchStep \/ CrashBeforePoll

\* The watcher's coroutine takes every step it can take, every remote call
\* it awaits is answered, and a batch that is polled again and again is
\* eventually reported ended and its results are eventually delivered.
WatcherFairness ==
    /\ WF_vars(WatchSleep)
    /\ WF_vars(\E t \in Tasks : WatchNext(t))
    /\ WF_vars(WatchEnded \/ \E st \in BatchStatuses \cup {"error"} : WatchNotEnded(st))
    /\ SF_vars(WatchEnded)
    /\ WF_vars(WatchResultsError \/ \E r \in BatchResults(watcher.batch_id) : WatchResults(r))
    /\ SF_vars(\E r \in BatchResults(watcher.batch_id) : WatchResults(r))
    /\ WF_vars(\E t \in Tasks : WatchUpdate(t))
    /\ WF_vars(WatchEnqueue)
    /\ WF_vars(WatchBatchDone)

RestartLiveSpec ==
    Init /\ [][RestartNext]_vars /\ DispatchFairness /\ WatcherFairness

\* The processor with both loops running, the store answering every
\* command and every batch eventually reported ended; the process may die
\* and be started again.
TaskLiveSpec ==
    Init /\ [][DispatchNext]_vars /\ DispatchFairness /\ WatcherFairness

\* The same in runs without a crash: no task reaches a worker with
\* attempts >= MAX_ATTEMPTS there, so WorkerMaxAttempts has no step.
CrashFreeNext ==
    \/ \E t \in Tasks : ProcessText(t)
    \/ ProcessLoop
    \/ \E t \in Tasks : WorkerEnqueue(t)
    \/ \E t \in Tasks : WorkerIncrement(t)
    \/ \E t \in Tasks : WorkerSetProcessing(t)
    \/ \E t \in Tasks : CreateBatchOk(t)
    \/ \E t \in Tasks, msg \in RemoteErrors : CreateBatchError(t, msg)
    \/ CheckBatchesLoop
    \/ WatchSleep
    \/ \E t \in Tasks : WatchNext(t)
    \/ \E st \in BatchStatuses \cup {"error"} : WatchNotEnded(st)
    \/ WatchEnded
    \/ WatchResultsError
    \/ \E r \in BatchResults(watcher.batch_id) : WatchResults(r)
    \/ \E t \in Tasks : WatchUpdate(t)
    \/ WatchEnqueue
    \/ WatchBatchDone

CrashFreeSpec == Init /\ [][CrashFreeNext]_vars
CrashFreeLiveSpec == CrashFreeSpec /\ DispatchFairness /\ WatcherFairness

\* ------------------------------------------------------------------ Relay
BATCH_SIZE == 10
RelayErrors == {<<"HTTP 503">>}

InFlight(m) == IF m \in DOMAIN delivery THEN delivery[m] ELSE 0

\* A terminal transition of the task processor enqueues its message.
EnqueueMessage(t, status) ==
    /\ outbox_task[t] = {}
    /\ create_outbox_message(NewMessageId, t, status,
                             IF status = "completed"
                             THEN [result |-> <<"26.30.11.150-00000123">>,
                                   processing_time |-> ProcessingTime,
                                   input_tokens |-> InputTokens,
                                   output_tokens |-> OutputTokens]
                             ELSE [error |-> ErrUnknown])
    /\ UNCHANGED <<taskVars, storeUp, cur, worker, watcher, relayVars, ret, task_callback, remote, product_store, processor>>

\* time.time() advances.
Tick ==
    /\ now < MaxTicks * RETRY_DELAY_SECONDS
    /\ now' = now + RETRY_DELAY_SECONDS
    /\ UNCHANGED <<taskVars, outboxVars, storeUp, cur, worker, watcher, delivery,
                   receiverOk, ret, task_callback, remote, product_store, processor>>

\* One cycle of _relay_loop: a delivery worker is spawned for every message
\* get_pending_messages returns; each runs up to its POST.
RelayLoop ==
    /\ get_pending_messages(BATCH_SIZE) # {}
    /\ \A m \in get_pending_messages(BATCH_SIZE) : InFlight(m) < MaxInFlight
    /\ delivery' = [m \in DOMAIN delivery \cup get_pending_messages(BATCH_SIZE) |->
                      IF m \in get_pending_messages(BATCH_SIZE)
                      THEN InFlight(m) + 1 ELSE delivery[m]]
    /\ UNCHANGED <<taskVars, outboxVars, storeUp, cur, worker, watcher, now, receiverOk, ret, task_callback, remote, product_store, processor>>

\* The delivery worker's coroutine ends.
DeliveryDone(m) ==
    IF delivery[m] = 1
    THEN [k \in DOMAIN delivery \ {m} |-> delivery[k]]
    ELSE [delivery EXCEPT ![m] = @ - 1]

\* _process_message: the POST was answered with a 2xx status.
DeliverOk(m) ==
    /\ InFlight(m) > 0
    /\ mark_as_sent(m)
    /\ delivery' = DeliveryDone(m)
    /\ UNCHANGED <<taskVars, storeUp, cur, worker, watcher, now, receiverOk, ret, task_callback, remote, product_store, processor>>

\* _process_message: the POST was answered with another status, or failed.
DeliverFail(m, error) ==
    /\ InFlight(m) > 0
    /\ ~receiverOk
    /\ message[m].retry_count < MaxRetries
    /\ now + NextRetryDelay(message[m].retry_count) <= MaxTicks * RETRY_DELAY_SECONDS
    /\ mark_as_failed(m, error)
    /\ delivery' = DeliveryDone(m)
    /\ UNCHANGED <<taskVars, storeUp, cur, worker, watcher, now, receiverOk, ret, task_callback, remote, product_store, processor>>

\* From now on the receiver answers every POST with a 2xx status.
ReceiverRecovers ==
    /\ ~receiverOk
    /\ receiverOk' = TRUE
    /\ UNCHANGED <<taskVars, outboxVars, storeUp, cur, worker, watcher, now, delivery, ret, task_callback, remote, product_store, processor>>

RelayStep ==
    \/ \E t \in Tasks, status \in Terminal : EnqueueMessage(t, status)
    \/ Tick
    \/ RelayLoop
    \/ \E m \in DOMAIN message : DeliverOk(m)
    \/ \E m \in DOMAIN message, e \in RelayErrors : DeliverFail(m, e)
    \/ ReceiverRecovers

RelayNext == RelayStep \/ Crash

RelaySpec == Init /\ [][RelayNext]_vars

\* The relay loop, its delivery workers and the clock keep running.
RelayFairness ==
    /\ WF_vars(RelayLoop)
    /\ WF_vars(Tick)
    /\ \A m \in MessageIds : WF_vars(DeliverOk(m))

RelayLiveSpec == Init /\ [][RelayStep]_vars /\ RelayFairness

\* ---------------------------------------------- delivery of one webhook
\* What the POST of _send_callback can end with: a response with a status
\* code, an aiohttp.ClientError (timeout included), any other exception.
HttpStatuses == {200, 204, 299, 300, 404, 503}
Responses ==
    {[kind |-> "http", status |-> c] : c \in HttpStatuses}
    \cup {[kind |-> "client_error", status |-> 0], [kind |-> "exception", status |-> 0]}

HttpError(c) ==
    CASE c = 300 -> <<"HTTP 300">>
      [] c = 404 -> <<"HTTP 404">>
      [] c = 503 -> <<"HTTP 503">>
      [] OTHER -> <<"HTTP">>

\* _send_callback that takes every status below 400 for a success.
_send_callback_below_400(resp) ==
    IF resp.kind = "http"
    THEN IF resp.status >= 200 /\ resp.status < 400
         THEN <<TRUE, None>>
         ELSE <<FALSE, HttpError(resp.status)>>
    ELSE IF resp.kind = "client_error"
         THEN <<FALSE, <<"connection error">>>>
         ELSE <<FALSE, <<"unexpected error">>>>

\* _send_callback: the pair (success, error) it returns for a response.
_send_callback(resp) ==
    IF resp.kind = "http"
    THEN IF resp.status >= 200 /\ resp.status < 300
         THEN <<TRUE, None>>
         ELSE <<FALSE, HttpError(resp.status)>>
    ELSE IF resp.kind = "client_error"
         THEN <<FALSE, <<"connection error">>>>
         ELSE <<FALSE, <<"unexpected error">>>>

\* _process_message: mark_as_sent on success, mark_as_failed otherwise.
ProcessMessage(m, resp) ==
    LET r == _send_callback(resp) IN
    IF r[1] THEN DeliverOk(m) ELSE DeliverFail(m, r[2])

\* Relay cycles and deliveries at one instant of the clock.
CallbackNext ==
    \/ \E t \in Tasks, status \in Terminal : EnqueueMessage(t, status)
    \/ RelayLoop
    \/ \E m \in DOMAIN message, resp \in Responses : ProcessMessage(m, resp)

CallbackSpec == Init /\ [][CallbackNext]_vars

\* The payload the task processor writes for a status.
PayloadOf(status) ==
    IF status = "completed"
    THEN [result |-> <<"26.30.11.150-00000123">>,
          processing_time |-> ProcessingTime,
          input_tokens |-> InputTokens,
          output_tokens |-> OutputTokens]
    ELSE [error |-> ErrUnknown]

\* ------------------------------------------------- the webhook request
\* CallbackData that always writes processing_time for a completed message.
CallbackData_always_processing_time(task_id, document_id, status, payload) ==
    <<<<"task_id", task_id>>, <<"document_id", document_id>>, <<"status", status>>>>
    \o (IF status = "completed"
        THEN <<<<"result", payload.result>>,
               <<"processing_time", IF "processing_time" \in DOMAIN payload
                                    THEN payload.processing_time ELSE None>>>>
        ELSE <<<<"error", IF "error" \in DOMAIN payload THEN payload.error ELSE ErrUnknown>>>>)

\* callback_data of _send_callback: a dict, as the list of its (key, value)
\* pairs in insertion order.
CallbackData(task_id, document_id, status, payload) ==
    <<<<"task_id", task_id>>, <<"document_id", document_id>>, <<"status", status>>>>
    \o (IF status = "completed"
        THEN (IF "result" \in DOMAIN payload
              THEN <<<<"result", payload.result>>>> ELSE <<>>)
             \o (IF "processing_time" \in DOMAIN payload
                 THEN <<<<"processing_time", payload.processing_time>>>> ELSE <<>>)
             \o (IF "input_tokens" \in DOMAIN payload
                 THEN <<<<"input_tokens", payload.input_tokens>>>> ELSE <<>>)
             \o (IF "output_tokens" \in DOMAIN payload
                 THEN <<<<"output_tokens", payload.output_tokens>>>> ELSE <<>>)
        ELSE IF status = "failed"
        THEN <<<<"error", IF "error" \in DOMAIN payload THEN payload.error ELSE ErrUnknown>>>>
        ELSE <<>>)

\* json.dumps(callback_data).encode('utf-8'): the bytes of one serialization.
json_dumps(data) == <<"json">> \o data

\* hmac.new(secret, payload_bytes, sha256).hexdigest()
Hmac(secret, payload_bytes) == <<"hmac-sha256", secret, payload_bytes>>

\* Request that signs the dict and posts a serialization made separately.
Request_signs_dict(m) ==
    LET callback_data == CallbackData(message[m].task_id, DocumentId(message[m].task_id),
                                      message[m].status, message[m].payload)
    IN [url |-> CALLBACK_URL,
        data |-> json_dumps(callback_data),
        signature |-> Hmac(CALLBACK_SECRET, callback_data)]

\* The POST _send_callback makes for message m: the stored message has no
\* callback_url field, so the URL is settings.CALLBACK_URL; the secret is
\* settings.CALLBACK_SECRET; the body is serialized once, signed and sent.
Request(m) ==
    LET callback_data == CallbackData(message[m].task_id, DocumentId(message[m].task_id),
                                      message[m].status, message[m].payload)
        payload_bytes == json_dumps(callback_data)
    IN [url |-> CALLBACK_URL,
        data |-> payload_bytes,
        signature |-> Hmac(CALLBACK_SECRET, payload_bytes)]

\* Callers' webhook endpoints with their secrets.
Callers == {[url |-> CALLBACK_URL, secret |-> CALLBACK_SECRET],
            [url |-> "https://caller.example/hook", secret |-> "secret-of-the-caller"]}

\* Payloads a message is written with.
Payloads(status) ==
    IF status = "completed"
    THEN {PayloadOf("completed"), [result |-> <<"26.30.11.150-00000123">>]}
    ELSE {PayloadOf("failed"), <<>>}

\* TaskStore.create_task called with the caller's callback_url and secret.
CallCreateTask(t, callback_url, callback_secret) ==
    /\ task[t] = NoTask
    /\ create_task(t, DocumentId(t), None, callback_url, callback_secret)
    /\ UNCHANGED <<outboxVars, storeUp, cur, worker, watcher, relayVars, ret, remote, product_store, processor>>

\* The outbox message of a task, written with one of the payloads.
EnqueueWith(t, status, payload) ==
    /\ task[t] # NoTask
    /\ outbox_task[t] = {}
    /\ create_outbox_message(NewMessageId, t, status, payload)
    /\ UNCHANGED <<taskVars, storeUp, cur, worker, watcher, relayVars, ret, task_callback, remote, product_store, processor>>

HookNext ==
    \/ \E t \in Tasks, c \in Callers : CallCreateTask(t, c.url, c.secret)
    \/ \E t \in Tasks, status \in Terminal :
          \E payload \in Payloads(status) : EnqueueWith(t, status, payload)
    \/ RelayLoop
    \/ \E m \in DOMAIN message, resp \in Responses : ProcessMessage(m, resp)

HookSpec == Init /\ [][HookNext]_vars

\* ------------------------------------------- OutboxStore, called directly
\* The methods of OutboxStore as any caller may invoke them, with message ids
\* the caller chooses; the clock is Tick's.
ContractIds == {1}

\* create_outbox_message(message_id, ...): no lookup of the id precedes the
\* pipeline, and the method returns True.
CallCreateOutboxMessage(message_id, t, status) ==
    /\ create_outbox_message(message_id, t, status, PayloadOf(status))
    /\ ret' = TRUE
    /\ UNCHANGED <<taskVars, storeUp, cur, worker, watcher, relayVars, task_callback, remote, product_store, processor>>

\* mark_as_sent(message_id): False for an id that does not exist.
CallMarkAsSent(message_id) ==
    /\ IF message_id \in DOMAIN message
       THEN mark_as_sent(message_id) /\ ret' = TRUE
       ELSE UNCHANGED outboxVars /\ ret' = FALSE
    /\ UNCHANGED <<taskVars, storeUp, cur, worker, watcher, relayVars, task_callback, remote, product_store, processor>>

\* mark_as_failed(message_id, error): False for an id that does not exist.
CallMarkAsFailed(message_id, error) ==
    /\ IF message_id \in DOMAIN message
       THEN /\ message[message_id].retry_count < MaxFailures
            /\ mark_as_failed(message_id, error)
            /\ ret' = TRUE
       ELSE UNCHANGED outboxVars /\ ret' = FALSE
    /\ UNCHANGED <<taskVars, storeUp, cur, worker, watcher, relayVars, task_callback, remote, product_store, processor>>

OutboxNext ==
    \/ \E id \in ContractIds, t \in Tasks, status \in Terminal :
          CallCreateOutboxMessage(id, t, status)
    \/ \E id \in ContractIds : CallMarkAsSent(id)
    \/ \E id \in ContractIds, e \in RelayErrors : CallMarkAsFailed(id, e)
    \/ Tick

OutboxSpec == Init /\ [][OutboxNext]_vars

\* ------------------------------------------------ the retry classifier
\* Pieces of text error messages are made of: the keywords, some of them in
\* other letter cases, and text that holds no keyword.
MaxPieces == 2
Pieces == RetryKeywords \cup NoRetryKeywords
          \cup {"Rate Limit", "TIMEOUT", "INVALID", "Malformed", "server error", "oops"}
ErrorMessages == UNION {[1..n -> Pieces] : n \in 0..MaxPieces}

\* One call of _should_retry_error, on the message the run started with.
Classify ==
    /\ ~ret.called
    /\ ret' = [error_message |-> ret.error_message, called |-> TRUE,
               retry |-> _should_retry_error(ret.error_message)]
    /\ UNCHANGED <<taskVars, outboxVars, storeUp, cur, worker, watcher, relayVars,
                   task_callback, remote, product_store, processor>>

ClassifierInit ==
    /\ InitStore
    /\ ret \in {[error_message |-> msg, called |-> FALSE, retry |-> FALSE] :
                   msg \in ErrorMessages}
    /\ processor = Started
ClassifierNext == Classify
ClassifierSpec == ClassifierInit /\ [][ClassifierNext]_vars

\* ----------------------------------- the watcher over tasks sharing a batch
\* Batch ids callers of the store tag tasks with; one id may tag several
\* tasks.
SharedBatches == {FreshBatch(t, 0) : t \in Tasks}

\* TaskStore.create_task called with a batch id.
CallCreateTaskInBatch(t, document_id, batch_id) ==
    /\ cur = NoCur
    /\ task[t] = NoTask
    /\ create_task(t, document_id, batch_id, CALLBACK_URL, CALLBACK_SECRET)
    /\ UNCHANGED <<outboxVars, storeUp, cur, worker, watcher, relayVars, ret, remote,
                   product_store, processor>>

\* TaskStore.update_task_status called to move a pending task to
\* processing_by_api, tagged with a batch id.
CallUpdateInFlight(t, batch_id) ==
    /\ cur = NoCur
    /\ task[t].status = "pending"
    /\ update_task_status(t, "processing_by_api", [batch_id |-> batch_id], 0)
    /\ UNCHANGED <<outboxVars, storeUp, cur, worker, watcher, relayVars, ret,
                   task_callback, remote, product_store, processor>>

SharedNext ==
    \/ \E t \in Tasks, d \in Documents, b \in SharedBatches :
          CallCreateTaskInBatch(t, d, b)
    \/ \E t \in Tasks, b \in SharedBatches : CallUpdateInFlight(t, b)
    \/ CheckBatchesLoop
    \/ WatchSleep
    \/ \E t \in Tasks : WatchNext(t)
    \/ \E st \in BatchStatuses \cup {"error"} : WatchNotEnded(st)
    \/ WatchEnded
    \/ WatchResultsError
    \/ \E r \in BatchResults(watcher.batch_id) : WatchResults(r)
    \/ \E t \in Tasks : WatchUpdate(t)
    \/ WatchEnqueue
    \/ WatchBatchDone

SharedSpec == Init /\ [][SharedNext]_vars

\* -------------------------------------------------- POST /products/batch
\* max_batch_size of the endpoint.
MAX_BATCH_SIZE == 100

\* Product batches created in one run.
MaxProductBatches == 4

\* Lengths of request.products (the request schema only says that products
\* is a list).
RequestSizes == {0, 1, MAX_BATCH_SIZE - 1, MAX_BATCH_SIZE, MAX_BATCH_SIZE + 1}

NewProductBatchId == Cardinality(DOMAIN product_store.batch) + 1

\* A product of a request: its id under mongo_id.$oid, under _id.$oid, or
\* no id at all.
NoIdProduct == [id_field |-> "none", oid |-> ""]
ProductKinds == {[id_field |-> "mongo_id", oid |-> "a"], [id_field |-> "_id", oid |-> "b"],
                 NoIdProduct}

\* The product_id process_product_batch derives for the i-th product when it
\* saves it: the $oid, or product_<uuid4>.
SavedProductId(product, i) ==
    IF product.id_field # "none" THEN <<"oid", product.oid>> ELSE <<"product_uuid4", i>>

\* The product_id _process_product_batch derives for the i-th product
\* (enumerate counts from 0): the $oid, or product_<index>.
ProcessedProductId(product, i) ==
    IF product.id_field # "none" THEN <<"oid", product.oid>> ELSE <<"product_index", i - 1>>

\* The key product:<batch_id>:<product_id>.
ProductKey(batch_id, product_id) == <<batch_id, product_id>>

\* The stored JSON of a product as submitted: no ktru_code field.
NoCode == <<"no ktru_code field">>
SavedProduct == [ktru_code |-> NoCode]

\* The coroutine _process_product_batch(batch_id, products) as created.
NewJob(products) ==
    [pc |-> "start", products |-> products, i |-> 1, polls |-> 0, ktru_code |-> None,
     returned |-> <<>>]

\* ProductProcessor.process_product_batch: one pipeline writes the batch
\* hash and adds the batch to product_batches:active; every product is
\* saved under its key; the processing coroutine is created.
process_product_batch(batch_id, products) ==
    product_store' =
        [product_store EXCEPT
           !.batch = (batch_id :> [status |-> "pending", product_count |-> Len(products),
                                   processed_count |-> 0, completed |-> FALSE]) @@ @,
           !.active = @ \cup {batch_id},
           !.product = [k \in {ProductKey(batch_id, SavedProductId(products[i], i)) :
                                  i \in 1..Len(products)} |-> SavedProduct] @@ @,
           !.job = (batch_id :> NewJob(products)) @@ @]

\* A request of n products.
RequestOf(n) == [i \in 1..n |-> NoIdProduct]

\* The try block of the endpoint: HTTPException(400) is raised for an empty
\* list and for a list longer than max_batch_size, otherwise the batch is
\* created and the 202 response returned.
ProductBatchTry(n) ==
    IF n = 0 THEN [raised |-> TRUE, status |-> 400]
    ELSE IF n > MAX_BATCH_SIZE THEN [raised |-> TRUE, status |-> 400]
    ELSE [raised |-> FALSE, status |-> 202]

\* The endpoint: every exception raised in the try block, HTTPException
\* included, is caught by except Exception and raised again as
\* HTTPException(500).
PostProductBatch(n) ==
    /\ Cardinality(DOMAIN product_store.batch) < MaxProductBatches
    /\ IF ProductBatchTry(n).raised
       THEN /\ ret' = [status |-> 500]
            /\ product_store' = product_store
       ELSE /\ process_product_batch(NewProductBatchId, RequestOf(n))
            /\ ret' = [status |-> ProductBatchTry(n).status, batch_id |-> NewProductBatchId,
                       product_count |-> n, processed_count |-> 0]
    /\ UNCHANGED <<taskVars, outboxVars, storeUp, cur, worker, watcher, relayVars,
                   task_callback, remote, processor>>

ProductsNext == \E n \in RequestSizes : PostProductBatch(n)

\* No request has been answered.
NoResponse == [status |-> 0]

ProductsInit == InitStore /\ ret = NoResponse /\ processor = Started

ProductsSpec == ProductsInit /\ [][ProductsNext]_vars

\* ------------------------------------ ProductProcessor, batch processing
\* max_attempts of _wait_for_anthropic_result.
WAIT_MAX_ATTEMPTS == 30

\* Product batches processed in one run.
MaxJobs == 1
\* Products of a processed batch.
MaxProducts == 2

Digits == {"0", "1", "2", "3", "4", "5", "6", "7", "8", "9"}

\* _is_valid_ktru_code: ^\d{2}\.\d{2}\.\d{2}\.\d{3}-\d{8}$
_is_valid_ktru_code(code) ==
    /\ Len(code) = 21
    /\ \A k \in {3, 6, 9} : code[k] = "."
    /\ code[13] = "-"
    /\ \A k \in (1..21) \ {3, 6, 9, 13} : code[k] \in Digits

\* The answer "code not found" (the Russian phrase of the prompt).
NOT_FOUND == <<"kod ne naiden">>

\* Texts the remote can answer with, character by character.
KtruText == <<"2", "6", ".", "3", "0", ".", "1", "1", ".", "1", "5", "0", "-",
              "0", "0", "0", "0", "0", "1", "2", "3">>
Contents == {KtruText, <<" ">> \o KtruText \o <<" ">>, NOT_FOUND,
             <<"2", "6", ".", "3", "0">>, <<>>}

\* What the poll of an ended batch finds for the product: a completed entry
\* with its content, an entry of another status, or no entry.
PollOutcomes ==
    {[kind |-> "completed", content |-> c] : c \in Contents}
    \cup {[kind |-> "failed", content |-> <<>>], [kind |-> "missing", content |-> <<>>]}

\* The value _wait_for_anthropic_result returns for an ended batch.
WaitResult(outcome) ==
    IF outcome.kind = "completed"
    THEN LET ktru_code == StripRight(StripLeft(outcome.content)) IN
         IF ktru_code = NOT_FOUND \/ _is_valid_ktru_code(ktru_code)
         THEN ktru_code ELSE NOT_FOUND
    ELSE NOT_FOUND

Job(b) == product_store.job[b]
JobAt(b, pc) == b \in DOMAIN product_store.job /\ Job(b).pc = pc
JobProductId(b) == ProcessedProductId(Job(b).products[Job(b).i], Job(b).i)

\* The loop over products goes on with the next product, or leaves the loop.
NextProduct(job) ==
    IF job.i < Len(job.products)
    THEN [job EXCEPT !.pc = "submit", !.i = @ + 1, !.polls = 0, !.ktru_code = None]
    ELSE [job EXCEPT !.pc = "finish", !.ktru_code = None]

productsUnchanged ==
    UNCHANGED <<taskVars, outboxVars, storeUp, cur, worker, watcher, relayVars,
                task_callback, remote, processor, ret>>

\* ProductProcessor.process_product_batch called with a list of products.
CallProcessProductBatch(products) ==
    /\ Cardinality(DOMAIN product_store.job) < MaxJobs
    /\ storeUp
    /\ process_product_batch(NewProductBatchId, products)
    /\ productsUnchanged

\* _process_product_batch: the write of status processing.
ProductJobStart(b) ==
    /\ JobAt(b, "start")
    /\ product_store' =
          IF storeUp
          THEN [product_store EXCEPT
                  !.batch[b].status = "processing",
                  !.job[b].pc = IF Len(Job(b).products) = 0 THEN "finish" ELSE "submit"]
          ELSE [product_store EXCEPT !.job[b].pc = "outer_except"]
    /\ productsUnchanged

\* enrich_product_data and create_batch for the current product, then the
\* write of anthropic_batch:<product_id>; any exception goes to the
\* per-product handler.
ProductSubmit(b, ok) ==
    /\ JobAt(b, "submit")
    /\ product_store' =
          [product_store EXCEPT
             !.job[b].pc = IF ok /\ storeUp THEN "wait" ELSE "inner_except"]
    /\ productsUnchanged

\* _wait_for_anthropic_result: a poll that finds the batch not ended, or
\* that raises; the loop sleeps and goes on.
ProductPollPending(b) ==
    /\ JobAt(b, "wait")
    /\ Job(b).polls < WAIT_MAX_ATTEMPTS
    /\ product_store' = [product_store EXCEPT !.job[b].polls = @ + 1]
    /\ productsUnchanged

\* _wait_for_anthropic_result: a poll that finds the batch ended and gets
\* its results.
ProductPollEnded(b, outcome) ==
    /\ JobAt(b, "wait")
    /\ Job(b).polls < WAIT_MAX_ATTEMPTS
    /\ product_store' =
          [product_store EXCEPT
             !.job[b].polls = @ + 1,
             !.job[b].pc = "update",
             !.job[b].ktru_code = WaitResult(outcome),
             !.job[b].returned = (Job(b).i :> WaitResult(outcome)) @@ @]
    /\ productsUnchanged

\* _wait_for_anthropic_result: the loop is exhausted.
ProductPollExhausted(b) ==
    /\ JobAt(b, "wait")
    /\ Job(b).polls = WAIT_MAX_ATTEMPTS
    /\ product_store' =
          [product_store EXCEPT
             !.job[b].pc = "update",
             !.job[b].ktru_code = NOT_FOUND,
             !.job[b].returned = (Job(b).i :> NOT_FOUND) @@ @]
    /\ productsUnchanged

\* The stored product is read, given its ktru_code and written back, and
\* processed_count is incremented; json.loads raises when the key holds
\* nothing, a store command raises when the store is down.
ProductUpdate(b) ==
    /\ JobAt(b, "update")
    /\ LET product_key == ProductKey(b, JobProductId(b)) IN
       product_store' =
          IF storeUp /\ product_key \in DOMAIN product_store.product
          THEN [product_store EXCEPT
                  !.product[product_key].ktru_code =
                      IF Job(b).ktru_code # NOT_FOUND THEN Job(b).ktru_code ELSE None,
                  !.batch[b].processed_count = @ + 1,
                  !.job[b] = NextProduct(@)]
          ELSE [product_store EXCEPT !.job[b].pc = "inner_except"]
    /\ productsUnchanged

\* The per-product handler: error:<product_id> is written and
\* processed_count incremented; a store command that raises here leaves the
\* loop for the outer handler.
ProductExcept(b) ==
    /\ JobAt(b, "inner_except")
    /\ product_store' =
          IF storeUp
          THEN [product_store EXCEPT
                  !.error = @ \cup {ProductKey(b, JobProductId(b))},
                  !.batch[b].processed_count = @ + 1,
                  !.job[b] = NextProduct(@)]
          ELSE [product_store EXCEPT !.job[b].pc = "outer_except"]
    /\ productsUnchanged

\* After the loop: one pipeline marks the batch completed and moves it from
\* product_batches:active to product_batches:completed.
ProductFinish(b) ==
    /\ JobAt(b, "finish")
    /\ product_store' =
          IF storeUp
          THEN [product_store EXCEPT
                  !.batch[b].status = "completed",
                  !.batch[b].completed = TRUE,
                  !.active = @ \ {b},
                  !.completed = @ \cup {b},
                  !.job[b].pc = "done"]
          ELSE [product_store EXCEPT !.job[b].pc = "outer_except"]
    /\ productsUnchanged

\* The outer handler: one pipeline marks the batch failed and moves it to
\* product_batches:failed; when that pipeline raises too, the exception
\* ends the coroutine.
ProductFail(b) ==
    /\ JobAt(b, "outer_except")
    /\ product_store' =
          IF storeUp
          THEN [product_store EXCEPT
                  !.batch[b].status = "failed",
                  !.batch[b].completed = TRUE,
                  !.active = @ \ {b},
                  !.failed = @ \cup {b},
                  !.job[b].pc = "done"]
          ELSE [product_store EXCEPT !.job[b].pc = "raised"]
    /\ productsUnchanged

ProductLists == UNION {[1..n -> ProductKinds] : n \in 1..MaxProducts}
JobIds == 1..MaxJobs

\* The processing of product batches while the store answers.
ProductJobStep ==
    \/ \E products \in ProductLists : CallProcessProductBatch(products)
    \/ \E b \in JobIds : ProductJobStart(b)
    \/ \E b \in JobIds, ok \in BOOLEAN : ProductSubmit(b, ok)
    \/ \E b \in JobIds : ProductPollPending(b)
    \/ \E b \in JobIds, outcome \in PollOutcomes : ProductPollEnded(b, outcome)
    \/ \E b \in JobIds : ProductPollExhausted(b)
    \/ \E b \in JobIds : ProductUpdate(b)
    \/ \E b \in JobIds : ProductExcept(b)
    \/ \E b \in JobIds : ProductFinish(b)

ProductJobSpec == ProductsInit /\ [][ProductJobStep]_vars

\* The same with store outages.
ProductJobStoreNext ==
    \/ ProductJobStep
    \/ \E b \in JobIds : ProductFail(b)
    \/ StoreDown
    \/ StoreRecover

ProductJobStoreSpec == ProductsInit /\ [][ProductJobStoreNext]_vars

\* ------------------------------------------- TaskProcessor.start / stop
\* Calls of start() that create coroutines, per run.
MaxStarts == 3

\* The task processor after __init__: not running, no coroutine.
Constructed == [running |-> FALSE, process_loop |-> <<>>, check_loop |-> <<>>]

\* start(): returns at once when running is set; otherwise sets it and
\* creates one coroutine of each loop.
Start ==
    /\ Len(processor.process_loop) < MaxStarts
    /\ processor' = IF processor.running
                    THEN processor
                    ELSE [running |-> TRUE,
                          process_loop |-> Append(processor.process_loop, "test"),
                          check_loop |-> Append(processor.check_loop, "test")]
    /\ UNCHANGED <<taskVars, outboxVars, storeUp, cur, worker, watcher, relayVars, ret,
                   task_callback, remote, product_store>>

\* stop(): clears running.
Stop ==
    /\ processor' = [processor EXCEPT !.running = FALSE]
    /\ UNCHANGED <<taskVars, outboxVars, storeUp, cur, worker, watcher, relayVars, ret,
                   task_callback, remote, product_store>>

\* while self.running: a coroutine of a loop tests the flag; it runs one
\* cycle up to its sleep, or leaves the loop.
LoopTest(loop, i) ==
    /\ i \in DOMAIN processor[loop]
    /\ processor[loop][i] = "test"
    /\ processor' = [processor EXCEPT
                       ![loop][i] = IF processor.running THEN "sleep" ELSE "exited"]
    /\ UNCHANGED <<taskVars, outboxVars, storeUp, cur, worker, watcher, relayVars, ret,
                   task_callback, remote, product_store>>

\* asyncio.sleep returns: back to the loop's test.
LoopWake(loop, i) ==
    /\ i \in DOMAIN processor[loop]
    /\ processor[loop][i] = "sleep"
    /\ processor' = [processor EXCEPT ![loop][i] = "test"]
    /\ UNCHANGED <<taskVars, outboxVars, storeUp, cur, worker, watcher, relayVars, ret,
                   task_callback, remote, product_store>>

Loops == {"process_loop", "check_loop"}

LifecycleNext ==
    \/ Start
    \/ Stop
    \/ \E loop \in Loops, i \in 1..MaxStarts : LoopTest(loop, i)
    \/ \E loop \in Loops, i \in 1..MaxStarts : LoopWake(loop, i)

LifecycleInit == InitStore /\ ret = None /\ processor = Constructed

LifecycleSpec == LifecycleInit /\ [][LifecycleNext]_vars

\* Every coroutine of a loop takes its next step.
LifecycleFairness ==
    \A loop \in Loops, i \in 1..MaxStarts :
        WF_vars(LoopTest(loop, i)) /\ WF_vars(LoopWake(loop, i))

LifecycleLiveSpec == LifecycleSpec /\ LifecycleFairness

\* The coroutines of a loop that have not left it.
Running(loop) == {i \in DOMAIN processor[loop] : processor[loop][i] # "exited"}

\* After stop() with no later start() both loops exit.
StoppedLoopsExit ==
    (~processor.running) ~>
        (processor.running \/ \A loop \in Loops : Running(loop) = {})

\* ----------------------------------------------------------------- claims
Exists(t) == task[t].status # "absent"
MessagesOf(t) == {m \in DOMAIN message : message[m].task_id = t}

\* C1: every existing task is a member of exactly one tasks:<status> set,
\* the one its status field names.
C1_OneStatusIndex ==
    \A t \in Tasks : Exists(t) =>
        \A s \in Statuses : (t \in tasks_idx[s]) <=> (s = task[t].status)

C1_Witness ==
    \E t \in Tasks : task[t].status = "completed" /\ tasks_idx["completed"] = {t}
                     /\ \E u \in Tasks : task[u].status = "pending" /\ task[u].attempts = 1

\* C2: a task in completed or failed whose handler is not between the two
\* writes has its outbox message (status write and enqueue are one atomic
\* operation).
C2_TerminalHasMessage ==
    \A t \in Tasks : (task[t].status \in Terminal /\ cur = NoCur) => MessagesOf(t) # {}

AtEnqueue(t) ==
    \/ cur = WorkerCo(t) /\ worker[t].pc \in {"max_enqueue", "ai_enqueue", "exc_enqueue"}
    \/ cur = WatcherCo /\ watcher.pc = "enqueue" /\ watcher.task_id = t

\* C3: every terminal transition produces exactly one outbox message: no
\* task has more than one, a message belongs to a task in a terminal status,
\* and a task in completed or failed whose handler is not at its enqueue
\* step has exactly one.
C3_ExactlyOnePerTerminal ==
    \A t \in Tasks :
        /\ Cardinality(MessagesOf(t)) <= 1
        /\ outbox_task[t] = MessagesOf(t)
        /\ MessagesOf(t) # {} => task[t].status \in Terminal
        /\ (task[t].status \in Terminal /\ ~AtEnqueue(t)) =>
              Cardinality(MessagesOf(t)) = 1

\* C4: once a task is completed or failed, no step changes its status, its
\* result or its error.
C4_TerminalIsFinal ==
    [][\A t \in Tasks : task[t].status \in Terminal =>
          /\ task'[t].status = task[t].status
          /\ task'[t].result = task[t].result
          /\ task'[t].error = task[t].error]_vars

C4_Witness ==
    \E t, u \in Tasks :
        /\ task[t].status \in Terminal
        /\ worker[u].pc = "create_batch"
        /\ task[u].attempts = MAX_ATTEMPTS
        /\ watcher.pc = "next"

\* C7: attempts never decreases and never exceeds MAX_ATTEMPTS.
C7_AttemptsBounded ==
    /\ [](\A t \in Tasks : task[t].attempts <= MAX_ATTEMPTS)
    /\ [][\A t \in Tasks : Exists(t) => task'[t].attempts >= task[t].attempts]_vars

C7_Witness ==
    \E t \in Tasks : task[t].attempts = MAX_ATTEMPTS /\ task[t].status = "pending"

\* C8: when create_batch fails in a worker whose incremented counter is
\* new_attempts: a retryable error with new_attempts < MAX_ATTEMPTS returns
\* the task to pending and writes no outbox message; every other failure
\* writes the task as failed with the error text, and the worker's next step
\* enqueues one failed outbox message carrying that error.
C8_Step ==
    \A t \in Tasks :
        /\ \A msg \in RemoteErrors : CreateBatchError(t, msg) =>
              IF _should_retry_error(msg) /\ worker[t].new_attempts < MAX_ATTEMPTS
              THEN /\ task'[t].status = "pending"
                   /\ task'[t].error = None
                   /\ message' = message
                   /\ worker'[t] = NoWorker
              ELSE /\ task'[t].status = "failed"
                   /\ task'[t].error = AIExceptionText(msg)
                   /\ message' = message
                   /\ worker'[t].pc = "ai_enqueue"
                   /\ cur' = WorkerCo(t)
        /\ (WorkerEnqueue(t) /\ worker[t].pc = "ai_enqueue") =>
              \E m \in DOMAIN message' :
                  /\ m \notin DOMAIN message
                  /\ MessagesOf(t)' = {m}
                  /\ message'[m].status = "failed"
                  /\ message'[m].payload = [error |-> task[t].error]
                  /\ m \in DOMAIN outbox_pending'

C8_CreateBatchFailure == [][C8_Step]_vars

C8_Witness ==
    \E t, u \in Tasks :
        /\ task[t].status = "failed" /\ task[t].attempts = MAX_ATTEMPTS
        /\ task[t].error = AIExceptionText(<<"rate limit exceeded (429)">>)
        /\ \E m \in MessagesOf(t) : message[m].payload = [error |-> task[t].error]
        /\ task[u].status = "pending" /\ task[u].attempts = 2 /\ worker[u] = NoWorker
        /\ MessagesOf(u) = {}

\* C9: when the watcher has handled a batch whose status is ended, every
\* task of the batch has left processing_by_api: with a succeeded entry it
\* is completed with the entry's result and has a completed outbox message,
\* with an errored entry it is failed and has a failed outbox message, with
\* no entry it is failed with the not-found error and has a failed message.
BatchHandled == watcher.pc = "handle" /\ watcher.batch_tasks = {}

C9_EndedBatchHandled ==
    BatchHandled =>
        \A bt \in tasks_batch[watcher.batch_id] :
            LET doc == DocumentId(bt)
                r == watcher.results
            IN
            /\ task[bt].status # "processing_by_api"
            /\ (doc \in DOMAIN r /\ r[doc].status = "completed") =>
                  /\ task[bt].status = "completed"
                  /\ task[bt].result = r[doc].result
                  /\ \E m \in MessagesOf(bt) :
                        /\ message[m].status = "completed"
                        /\ message[m].payload.result = r[doc].result
            /\ (doc \in DOMAIN r /\ r[doc].status = "failed") =>
                  /\ task[bt].status = "failed"
                  /\ task[bt].error = r[doc].error
                  /\ \E m \in MessagesOf(bt) : message[m].status = "failed"
            /\ doc \notin DOMAIN r =>
                  /\ task[bt].status = "failed"
                  /\ task[bt].error = ErrNotFound(doc, watcher.batch_id)
                  /\ \E m \in MessagesOf(bt) :
                        /\ message[m].status = "failed"
                        /\ message[m].payload = [error |-> ErrNotFound(doc, watcher.batch_id)]

C9_Witness ==
    /\ BatchHandled
    /\ watcher.results = <<>>
    /\ tasks_batch[watcher.batch_id] # {}
    /\ \E u \in Tasks : task[u].status = "completed"
                        /\ task[u].result = <<"26.30.11.150-00000123">>

\* C10: a completed task has a result and no error, a failed task has an
\* error and no result.
C10_ResultXorError ==
    \A t \in Tasks :
        /\ task[t].status = "completed" => task[t].result # None /\ task[t].error = None
        /\ task[t].status = "failed" => task[t].error # None /\ task[t].result = None

C10_Witness ==
    \E t, u \in Tasks :
        /\ task[t].status = "completed" /\ task[t].result = <<>>
        /\ task[u].status = "failed" /\ task[u].error = ErrBatchEntry

Sent(m) == message[m].sent_at # NoTime

\* C5: with the relay loop and its delivery workers weakly fair, once the
\* receiver answers every POST with 2xx, every enqueued message eventually
\* has sent_at set and is not in outbox:pending.
C5_EventuallySent ==
    \A m \in MessageIds :
        (m \in DOMAIN message /\ receiverOk)
            ~> (m \in DOMAIN message /\ Sent(m) /\ m \notin DOMAIN outbox_pending)

C5_Witness ==
    \E m \in DOMAIN message :
        /\ Sent(m) /\ message[m].retry_count = MaxRetries
        /\ m \notin DOMAIN outbox_pending
        /\ receiverOk

\* C6: a message whose sent_at is set is not a member of outbox:pending.
C6_SentNotPending ==
    \A m \in DOMAIN message : Sent(m) => m \notin DOMAIN outbox_pending

\* C11: every outbox message belongs to a task in a terminal status and
\* carries that status; conversely every task in completed or failed, once
\* its handler has left it, has an outbox message with its status.
C11_MessageMirrorsTask ==
    /\ \A m \in DOMAIN message :
          /\ task[message[m].task_id].status \in Terminal
          /\ message[m].status = task[message[m].task_id].status
    /\ \A t \in Tasks :
          (task[t].status \in Terminal /\ ~AtEnqueue(t)) =>
              \E m \in DOMAIN message :
                  message[m].task_id = t /\ message[m].status = task[t].status

\* C12: create_outbox_message called with a message id that already exists
\* returns False and leaves the stored message, outbox:pending and
\* outbox:sent as they were.
C12_EnqueueIdempotent ==
    [][\A id \in ContractIds, t \in Tasks, status \in Terminal :
          (id \in DOMAIN message /\ CallCreateOutboxMessage(id, t, status)) =>
              /\ ret' = FALSE
              /\ message' = message
              /\ outbox_pending' = outbox_pending
              /\ outbox_sent' = outbox_sent]_vars

\* C13: a second mark_as_sent of a message leaves it in outbox:sent and out
\* of outbox:pending, with the sent_at the first call wrote.
C13_MarkSentIdempotent ==
    [][\A id \in ContractIds :
          (id \in DOMAIN message /\ Sent(id) /\ CallMarkAsSent(id)) =>
              /\ message'[id].sent_at = message[id].sent_at
              /\ id \in DOMAIN outbox_sent'
              /\ id \notin DOMAIN outbox_pending']_vars

\* C14: a new message has retry_count 0, and the mark_as_failed that is the
\* k-th failure of a message sets retry_count to k and next_retry_at to
\* now + min(60 * 2^(k-1), 86400), and scores the message in outbox:pending
\* by that value.
C14_Step ==
    \A id \in ContractIds :
        /\ (\E t \in Tasks, status \in Terminal : CallCreateOutboxMessage(id, t, status)) =>
              message'[id].retry_count = 0
        /\ (id \in DOMAIN message /\ \E e \in RelayErrors : CallMarkAsFailed(id, e)) =>
              LET k == message[id].retry_count + 1
                  delay == IF 60 * (2 ^ (k - 1)) <= 86400 THEN 60 * (2 ^ (k - 1)) ELSE 86400
              IN
              /\ message'[id].retry_count = k
              /\ message'[id].next_retry_at = now + delay
              /\ id \in DOMAIN outbox_pending'
              /\ outbox_pending'[id] = now + delay
              /\ (k = 1 => delay = 60) /\ (k = 2 => delay = 120)

C14_RetryBackoff == [][C14_Step]_vars

C14_Witness ==
    \E id \in DOMAIN message :
        /\ message[id].retry_count >= 12
        /\ message[id].next_retry_at >= 86400
        /\ id \in DOMAIN outbox_pending
        /\ outbox_pending[id] = message[id].next_retry_at

\* C15: for every message and every step of a run of create_outbox_message,
\* mark_as_failed and mark_as_sent calls under a non-decreasing clock,
\* next_retry_at and retry_count do not decrease, and next_retry_at is never
\* below created_at.
C15_Step ==
    \A id \in DOMAIN message :
        /\ id \in DOMAIN message'
        /\ message'[id].next_retry_at >= message[id].next_retry_at
        /\ message'[id].retry_count >= message[id].retry_count

C15_RetryMonotone ==
    /\ [](\A id \in DOMAIN message :
            /\ message[id].retry_count >= 0
            /\ message[id].next_retry_at >= message[id].created_at)
    /\ [][C15_Step]_vars

\* C16: a delivery attempt ends with one store update of its message:
\* mark_as_sent when the receiver answered with a status in 200..299 (and
\* only then), mark_as_failed for every other status, every transport
\* error and every other exception.
Is2xx(resp) == resp.kind = "http" /\ resp.status \in 200..299

C16_Step ==
    \A m \in DOMAIN message, resp \in Responses :
        ProcessMessage(m, resp) =>
            IF Is2xx(resp)
            THEN /\ message'[m].sent_at = now
                 /\ m \in DOMAIN outbox_sent' /\ m \notin DOMAIN outbox_pending'
                 /\ message'[m].retry_count = message[m].retry_count
                 /\ message'[m].last_error = message[m].last_error
            ELSE /\ message'[m].retry_count = message[m].retry_count + 1
                 /\ message'[m].last_error # None
                 /\ m \in DOMAIN outbox_pending'
                 /\ message'[m].sent_at = message[m].sent_at
                 /\ outbox_sent' = outbox_sent

C16_OneUpdatePerAttempt == [][C16_Step]_vars

C16_Witness ==
    \E m, n \in DOMAIN message :
        /\ Sent(m) /\ message[m].retry_count = 0
        /\ ~Sent(n) /\ message[n].retry_count = 1
        /\ message[n].last_error = <<"HTTP 300">>

\* C17: every webhook in flight is POSTed to the callback_url stored with
\* the message's task and is signed with that task's callback_secret.
C17_OwnCallback ==
    \A m \in DOMAIN message :
        InFlight(m) > 0 =>
            /\ Request(m).url = task_callback[message[m].task_id].url
            /\ Request(m).signature =
                  Hmac(task_callback[message[m].task_id].secret, Request(m).data)

\* C18: the X-Signature of every webhook in flight is the signature function
\* applied to the secret and to the very bytes posted as the body.
C18_SignatureOfBody ==
    \A m \in DOMAIN message :
        InFlight(m) > 0 =>
            Request(m).signature = Hmac(CALLBACK_SECRET, Request(m).data)

C18_Witness ==
    \E m \in DOMAIN message :
        /\ InFlight(m) > 0
        /\ message[m].status = "completed"
        /\ Len(Request(m).data) = 8

\* The keys of a serialized body.
Fields(data) == {data[i][1] : i \in 2..Len(data)}

\* C19: the body of every webhook in flight has task_id, document_id and
\* status; for completed it has result, has processing_time, input_tokens
\* and output_tokens exactly when the payload has them, and has no error;
\* for failed it has error and none of the result fields.
C19_BodyFields ==
    \A m \in DOMAIN message :
        InFlight(m) > 0 =>
            LET f == Fields(Request(m).data)
                payload == message[m].payload
                optional == {"processing_time", "input_tokens", "output_tokens"}
            IN
            /\ {"task_id", "document_id", "status"} \subseteq f
            /\ message[m].status = "completed" =>
                  /\ "result" \in f
                  /\ "error" \notin f
                  /\ f \cap optional = DOMAIN payload \cap optional
            /\ message[m].status = "failed" =>
                  /\ "error" \in f
                  /\ f \cap ({"result"} \cup optional) = {}

C19_Witness ==
    \E m, n \in DOMAIN message :
        /\ InFlight(m) > 0 /\ InFlight(n) > 0
        /\ message[m].status = "completed" /\ DOMAIN message[m].payload = {"result"}
        /\ message[n].status = "failed" /\ message[n].payload = <<>>

HasRetryKeyword(msg) == \E k \in RetryKeywords : Contains(msg, k)
HasNoRetryKeyword(msg) == \E k \in NoRetryKeywords : Contains(msg, k)

\* C20 as stated: the classifier answers retry for every message with a
\* retry keyword, do-not-retry for every message with a do-not-retry
\* keyword, and retry for a message with neither.
C20_Classifier ==
    ret.called =>
        /\ HasRetryKeyword(ret.error_message) => ret.retry
        /\ HasNoRetryKeyword(ret.error_message) => ~ret.retry
        /\ (~HasRetryKeyword(ret.error_message) /\ ~HasNoRetryKeyword(ret.error_message))
              => ret.retry

\* C20, amended: the classifier answers retry for every message with a retry
\* keyword, do-not-retry for every message with a do-not-retry keyword and
\* no retry keyword, and retry for a message with neither; letter case does
\* not matter.
C20_ClassifierRetryFirst ==
    ret.called =>
        /\ HasRetryKeyword(ret.error_message) => ret.retry
        /\ (HasNoRetryKeyword(ret.error_message) /\ ~HasRetryKeyword(ret.error_message))
              => ~ret.retry
        /\ (~HasRetryKeyword(ret.error_message) /\ ~HasNoRetryKeyword(ret.error_message))
              => ret.retry

C20_Witness ==
    /\ ret.called
    /\ ret.error_message = <<"INVALID", "TIMEOUT">>
    /\ ret.retry

\* C21: every task in processing_by_api has a batch_id, and a batch_id once
\* set is never changed to another value nor cleared by a later create_task
\* or update_task_status.
C21_BatchIdImmutable ==
    /\ [](\A t \in Tasks : task[t].status = "processing_by_api" => task[t].batch_id # None)
    /\ [][\A t \in Tasks : task[t].batch_id # None => task'[t].batch_id = task[t].batch_id]_vars

\* The TTL schedule by status: the default of create_task for pending, the
\* defaults update_task_status applies to the :result and :error keys.
TtlSchedule(status) ==
    CASE status = "pending" -> PENDING_TTL
      [] status = "completed" -> COMPLETED_TTL
      [] status = "failed" -> FAILED_TTL

\* C22: after every status change the dispatcher or the watcher makes
\* through update_task_status to pending, completed or failed, the TTL set
\* on the task record is the one of the new status: 7 days for pending,
\* 3 days for completed, 14 days for failed.
C22_Step ==
    \A t \in Tasks :
        (/\ Exists(t)
         /\ task'[t].status # task[t].status
         /\ task'[t].status \in {"pending", "completed", "failed"})
            => task'[t].ttl = TtlSchedule(task'[t].status)

C22_TtlOfNewState == [][C22_Step]_vars

\* A task left in processing that no worker holds.
Orphaned(t) == task[t].status = "processing" /\ worker[t] = NoWorker

\* C23: a task whose worker was lost in a crash after it wrote processing
\* and before create_batch returned is eventually dispatched again: a worker
\* is started for it.
C23_RedispatchedAfterCrash ==
    \A t \in Tasks : Orphaned(t) ~> (worker[t].pc = "start")

\* The watcher awaits the status of the batch task t is tagged with.
Polled(t) == watcher.pc = "status" /\ watcher.batch_id = task[t].batch_id

\* C24: a task written as processing_by_api with its batch_id, whatever
\* crash and restart follows before the watcher polls the batch, is found by
\* the restarted (idle) watcher through tasks:processing_by_api, its batch
\* is polled and the task reaches completed or failed; no worker submits
\* the task again (none exists for it, and the task never goes back to
\* pending or processing).
C24_ResumedAfterCrash ==
    /\ [](\A t \in Tasks : task[t].status = "processing_by_api" => worker[t] = NoWorker)
    /\ [][\A t \in Tasks : task[t].status = "processing_by_api" =>
            task'[t].status \in {"processing_by_api"} \cup Terminal]_vars
    /\ \A t \in Tasks :
          (task[t].status = "processing_by_api" /\ watcher = IdleWatcher) ~> Polled(t)
    /\ \A t \in Tasks : (task[t].status = "processing_by_api") ~> (task[t].status \in Terminal)

C24_Witness ==
    \E t, u \in Tasks :
        /\ Orphaned(u)
        /\ task[t].status = "completed"
        /\ task[t].batch_id = FreshBatch(t, 1)
        /\ MessagesOf(t) # {}

\* C25: against a remote that refuses the first k < MAX_ATTEMPTS submissions
\* of a task with retryable errors and accepts the next one, the task
\* eventually is in processing_by_api with attempts = k + 1; up to then no
\* outbox message exists for it, it is never failed, and no worker finds its
\* attempts exhausted.
C25_RetryThenInFlight ==
    /\ [](\A t \in Tasks :
            /\ MessagesOf(t) = {}
            /\ task[t].status \notin Terminal
            /\ worker[t].pc = "start" => worker[t].attempts < MAX_ATTEMPTS
            /\ task[t].status = "processing_by_api" =>
                  task[t].attempts = remote.rejected[t] + 1)
    /\ \A t \in Tasks :
          Exists(t) ~> (/\ task[t].status = "processing_by_api"
                        /\ task[t].attempts = remote.rejected[t] + 1)

C25_Witness ==
    \E t, u \in Tasks :
        /\ task[t].status = "processing_by_api"
        /\ remote.rejected[t] = MAX_ATTEMPTS - 1 /\ task[t].attempts = MAX_ATTEMPTS
        /\ task[u].status = "processing_by_api"
        /\ remote.rejected[u] = 0 /\ task[u].attempts = 1
        /\ message = <<>>

\* C26: POST /products/batch answers a request of exactly 100 products with
\* 202 and creates the batch, and answers a request of 101 products with
\* 400 and creates no batch.
C26_Step ==
    \A n \in RequestSizes :
        PostProductBatch(n) =>
            /\ n = MAX_BATCH_SIZE =>
                  /\ ret'.status = 202
                  /\ ret'.batch_id \in product_store'.active \ product_store.active
                  /\ product_store'.batch[ret'.batch_id].product_count = MAX_BATCH_SIZE
            /\ n = MAX_BATCH_SIZE + 1 =>
                  /\ ret'.status = 400
                  /\ product_store' = product_store

C26_BatchSizeLimit == [][C26_Step]_vars

\* C27: a store write that fails in a dispatcher worker (the write of
\* processing_by_api after a successful create_batch included) leaves the
\* task as it was before the write, and a later dispatcher cycle starts a
\* worker for the task again.
C27_StoreFailureRepicked ==
    /\ [][\A t \in Tasks :
            (WorkerStoreError(t) \/ CreateBatchOkStoreDown(t)) => task'[t] = task[t]]_vars
    /\ \A t \in Tasks :
          (task[t].status \in {"pending", "processing"} /\ worker[t] = NoWorker)
              ~> (worker[t].pc = "start")

\* C28: a worker started for a pending task whose attempts are already at
\* MAX_ATTEMPTS does not increment attempts; it writes the task as failed
\* with the maximum-attempts error, its next step enqueues one failed outbox
\* message with that error, and it ends there: the task is not written as
\* processing and create_batch is not awaited.
C28_Step ==
    \A t \in Tasks :
        /\ (worker[t].pc = "start" /\ worker[t].attempts >= MAX_ATTEMPTS) =>
              /\ ~WorkerIncrement(t)
              /\ task'[t].attempts = task[t].attempts
              /\ task'[t].status \in {"pending", "failed"}
        /\ WorkerMaxAttempts(t) =>
              /\ task[t].status = "pending"
              /\ task'[t].status = "failed"
              /\ task'[t].error = ErrMaxAttempts
              /\ message' = message
              /\ worker'[t].pc = "max_enqueue"
              /\ cur' = WorkerCo(t)
        /\ worker[t].pc = "max_enqueue" =>
              /\ worker'[t].pc \in {"max_enqueue", "none"}
              /\ task'[t] = task[t]
        /\ (WorkerEnqueue(t) /\ worker[t].pc = "max_enqueue") =>
              /\ worker'[t] = NoWorker
              /\ \E m \in DOMAIN message' :
                    /\ m \notin DOMAIN message
                    /\ MessagesOf(t)' = {m}
                    /\ message'[m].status = "failed"
                    /\ message'[m].payload = [error |-> ErrMaxAttempts]
                    /\ m \in DOMAIN outbox_pending'

C28_MaxAttemptsExceeded == [][C28_Step]_vars

C28_Witness ==
    \E t \in Tasks :
        /\ task[t].status = "failed" /\ task[t].error = ErrMaxAttempts
        /\ task[t].attempts = MAX_ATTEMPTS
        /\ worker[t] = NoWorker
        /\ \E m \in MessagesOf(t) : message[m].payload = [error |-> ErrMaxAttempts]

\* The tasks in processing_by_api that are tagged with the batch the watcher
\* is polling.
TasksOfPolledBatch ==
    {t \in Tasks : task[t].status = "processing_by_api" /\ task[t].batch_id = watcher.batch_id}

\* C29: when the watcher gets, for a batch, a status other than ended
\* (in_progress, expired, canceled), or the status request or the result
\* request fails, every task record, every index and the outbox stay as they
\* were, the tasks of the batch stay in tasks:processing_by_api, and the
\* cycle goes on; every cycle lists all of tasks:processing_by_api and polls
\* the batch of every listed task.
C29_Step ==
    /\ ((\E st \in (BatchStatuses \ {"ended"}) \cup {"error"} : WatchNotEnded(st))
        \/ WatchResultsError) =>
          /\ task' = task /\ tasks_idx' = tasks_idx /\ tasks_batch' = tasks_batch
          /\ message' = message /\ outbox_pending' = outbox_pending
          /\ outbox_sent' = outbox_sent /\ outbox_task' = outbox_task
          /\ TasksOfPolledBatch \subseteq tasks_idx'["processing_by_api"]
          /\ watcher'.pc = "next" /\ watcher'.list = watcher.list
    /\ CheckBatchesLoop => watcher'.list = tasks_idx["processing_by_api"]
    /\ \A t \in Tasks :
          (WatchNext(t) /\ task[t].batch_id # None) =>
              /\ watcher'.pc = "status"
              /\ watcher'.batch_id = task[t].batch_id

C29_NotEndedLeftInFlight == [][C29_Step]_vars

C29_Witness ==
    /\ watcher.pc = "next"
    /\ watcher.list = {}
    /\ Cardinality(tasks_idx["processing_by_api"]) = 2
    /\ message = <<>>

\* C30: within one watcher cycle the status of a batch id is requested at
\* most once and the results of an ended batch are applied at most once,
\* however many tasks in processing_by_api carry that batch id.
C30_Step ==
    /\ \A t \in Tasks :
          (WatchNext(t) /\ task[t].batch_id # None) => task[t].batch_id \notin watcher.polled
    /\ (\E r \in BatchResults(watcher.batch_id) : WatchResults(r)) =>
          watcher.batch_id \notin watcher.applied

C30_OncePerBatchAndCycle == [][C30_Step]_vars

\* C31: when several tasks of one ended batch carry the same document_id,
\* only the first of them handled is completed with the single result
\* entry; every later one becomes failed with the error "duplicate document
\* id in batch".
\* Tasks of the batch under application that were written before bt and
\* carry bt's document_id.
HandledWithSameDocument(bt) ==
    {o \in tasks_batch[watcher.batch_id] \ watcher.batch_tasks :
        /\ o # bt
        /\ task[o].status \in Terminal
        /\ task[o].document_id = task[bt].document_id}

C31_Step ==
    \A bt \in Tasks :
        (/\ WatchUpdate(bt)
         /\ task[bt].document_id \in DOMAIN watcher.results
         /\ watcher.results[task[bt].document_id].status = "completed"
         /\ HandledWithSameDocument(bt) # {}) =>
            /\ task'[bt].status = "failed"
            /\ task'[bt].error = <<"duplicate document id in batch">>

C31_DuplicateDocumentFails == [][C31_Step]_vars

\* C32: at any time at most one delivery worker is in progress for a given
\* outbox message: a message whose POST has been started and not yet
\* answered is not handed to a second worker by a later relay cycle.
C32_OneWorkerPerMessage ==
    \A m \in DOMAIN message : InFlight(m) <= 1

\* The remote batches whose creation on behalf of t was followed by a write
\* of the task: each is a member of the per-batch index of its id.
BatchesCreatedFor(t) == {b \in BatchIds : t \in tasks_batch[b]}

\* C33: for every task at most one remote batch is ever successfully
\* created on its behalf, counting the create_batch of POST /processing and
\* the create_batch calls of the dispatcher's workers.
C33_OneBatchPerTask ==
    \A t \in Tasks : Cardinality(BatchesCreatedFor(t)) <= 1

\* C34: with the dispatcher and watcher loops running, the store answering
\* and every remote batch eventually reported ended, every created task
\* eventually reaches completed or failed.
C34_EveryTaskTerminates ==
    \A t \in Tasks : Exists(t) ~> (task[t].status \in Terminal)

\* C35: for any sequence of start() and stop() calls at most one dispatcher
\* loop and at most one batch-watcher loop are running at any time.
C35_OneLoopOfEachKind ==
    \A loop \in Loops : Cardinality(Running(loop)) <= 1

\* The coroutine processing batch b has ended.
JobEnded(b) == Job(b).pc \in {"done", "raised"}

\* C36: processing a product batch terminates: each product is polled at
\* most 30 times, processed_count never exceeds product_count, and when the
\* processing has ended the batch has completed = true, status completed or
\* failed, processed_count equal to product_count, and is a member of
\* exactly one of product_batches:completed / product_batches:failed and
\* not of product_batches:active.
C36_ProductBatchEnds ==
    \A b \in DOMAIN product_store.job :
        LET batch == product_store.batch[b] IN
        /\ Job(b).polls <= 30
        /\ batch.processed_count <= batch.product_count
        /\ JobEnded(b) =>
              /\ batch.completed
              /\ batch.status \in {"completed", "failed"}
              /\ batch.processed_count = batch.product_count
              /\ (b \in product_store.completed) # (b \in product_store.failed)
              /\ b \notin product_store.active

\* C37: the key under which a product was saved at submission is the key
\* the processing reads and updates: after the batch has completed, every
\* product for which the remote returned a valid code has ktru_code set in
\* its stored record and no error:<product_id> entry.
C37_SavedKeyIsProcessedKey ==
    \A b \in DOMAIN product_store.job :
        product_store.batch[b].status = "completed" =>
            \A i \in DOMAIN Job(b).returned :
                _is_valid_ktru_code(Job(b).returned[i]) =>
                    LET product == Job(b).products[i] IN
                    /\ product_store.product[ProductKey(b, SavedProductId(product, i))].ktru_code
                          = Job(b).returned[i]
                    /\ ProductKey(b, ProcessedProductId(product, i)) \notin product_store.error

C39_PendingCounter ==
    /\ stats.pending_tasks = Cardinality(tasks_idx["pending"])
    /\ stats.pending_tasks >= 0

====
